------------------------- MODULE ChunkUploadProofs --------------------------
(***************************************************************************)
(* A chunk is part of one attachment sent, for any POSTs and deliveries.   *)
(*                                                                         *)
(* The argument: a file that has been joined is gone from the directory,   *)
(* or was spared by the removal, and the POST that created it will not     *)
(* create it again (Consumed, Born).  What a POST reads later is therefore *)
(* another file or a spared one; what it read before the removal, it read  *)
(* beside the one that removed, and they have met (Meeting).               *)
(***************************************************************************)
EXTENDS ChunkUpload, FiniteSetTheorems, TLAPS

\* p has joined what it read and tried to remove the chunks.
Joined(p) == step[p] = "sending" \/ p \in sent

\* The POSTs that need the directory as it is, and those whose reading still matters.
AtFiles   == {"reading", "removing"}
Reader(p) == step[p] \in AtFiles \/ Joined(p)

\* A file was created by a POST that will not create another.
Born ==
    /\ \A f \in files : step[f.born] \notin {"idle", "opening"}
    /\ \A p \in Posts : \A b \in Read(p) : step[b] \notin {"idle", "opening"}

\* Only readers and those that were have read, and a send is the end of its POST.
Order ==
    /\ \A p \in Posts : step[p] \in {"idle", "opening", "writing", "stopping", "listing"} =>
                            joined_up[p] = << >>
    /\ \A p \in sent : step[p] \in {"done", "failed", "dropped"}

\* Two that read or remove at one time have met.
Meeting ==
    \A p, q \in Posted : p # q /\ step[p] \in AtFiles /\ step[q] \in AtFiles => {p, q} \in met

\* What was joined is no longer there, or was spared.
Consumed ==
    \A p \in Posts : Joined(p) => \A f \in files : f.born \in Read(p) => <<p, f.born>> \in spared

Spared(p, b) == <<p, b>> \in spared

\* Who joined shares nothing with a reader it has not met, but what one of them spared.
Apart ==
    \A p, q \in Posted :
        p # q /\ {p, q} \notin met /\ Joined(p) /\ Reader(q) =>
            \A b \in Read(p) \cap Read(q) : Spared(p, b) \/ Spared(q, b)

ChunkInv == Born /\ Order /\ Meeting /\ Consumed /\ Apart

-----------------------------------------------------------------------------

LEMMA UploadTyping == UploadInit => UploadTypeOK
<1> SUFFICES ASSUME UploadInit PROVE UploadTypeOK
  OBVIOUS
<1>1. joined_up \in [Posts -> Seq(Chunk)]
  <2>1. << >> \in Seq(Chunk)
    OBVIOUS
  <2> QED BY <2>1 DEF UploadInit
<1> QED BY <1>1 DEF UploadInit, UploadTypeOK

LEMMA DeliveredType ==
  ASSUME UploadTypeOK, NEW p \in Posted
  PROVE  p \in Posts /\ delivery[p] \in [idx : Nat, name : Names, total : Nat, final : BOOLEAN]
  BY DeliveryAssumption DEF UploadTypeOK, Posted

LEMMA UploadTypeStep == UploadTypeOK /\ [UploadStep]_uploadVars => UploadTypeOK'
<1> SUFFICES ASSUME UploadTypeOK, [UploadStep]_uploadVars PROVE UploadTypeOK'
  OBVIOUS
<1>0. CASE UNCHANGED uploadVars
  BY <1>0 DEF UploadTypeOK, uploadVars, Posted, Name
<1>1. ASSUME NEW p \in Posted, MakeFolder(p) PROVE UploadTypeOK'
  BY <1>1, DeliveredType DEF UploadTypeOK, MakeFolder, To, Running, Posted, Name
<1>2. ASSUME NEW p \in Posted, OpenChunk(p) PROVE UploadTypeOK'
  <2> DEFINE here == {f \in files : Name(f) = Named(p)}
             new  == [idx |-> delivery[p].idx, name |-> delivery[p].name, born |-> p, whole |-> FALSE]
  <2>0. p \in Posts /\ delivery[p] \in [idx : Nat, name : Names, total : Nat, final : BOOLEAN]
    BY DeliveredType
  <2>1. CASE ~folder
    BY <1>2, <2>1, <2>0 DEF UploadTypeOK, OpenChunk, To, Running, Posted, Name
  <2>2. CASE folder
    <3>1. files' = (files \ here) \cup
                    (IF here = {} THEN {new} ELSE {[f EXCEPT !.whole = FALSE] : f \in here})
      BY <1>2, <2>2 DEF OpenChunk
    <3>2. new \in Chunk /\ Name(new) = Named(p)
      BY <2>0 DEF Chunk, Name, Named
    <3>3. \A f \in here : [f EXCEPT !.whole = FALSE] \in Chunk /\ Name([f EXCEPT !.whole = FALSE]) = Named(p)
      BY DEF UploadTypeOK, Chunk, Name
    <3>4. \A f, g \in here : f = g
      BY DEF UploadTypeOK
    <3> HIDE DEF new
    <3>5. \A g \in files' :
             \/ g \in files /\ Name(g) # Named(p)
             \/ here = {} /\ g = new
             \/ \E f \in here : g = [f EXCEPT !.whole = FALSE]
      BY <3>1
    <3>6. files' \subseteq Chunk /\ \A f, g \in files' : Name(f) = Name(g) => f = g
      <4>1. files' \subseteq Chunk
        <5>1. files \subseteq Chunk
          BY DEF UploadTypeOK
        <5>2. ASSUME NEW g \in files' PROVE g \in Chunk
          <6>1. CASE g \in files
            BY <5>1, <6>1
          <6>2. CASE g = new
            BY <3>2, <6>2
          <6>3. ASSUME NEW f \in here, g = [f EXCEPT !.whole = FALSE] PROVE g \in Chunk
            BY <3>3, <6>3
          <6> QED BY <3>5, <5>2, <6>1, <6>2, <6>3
        <5> QED BY <5>2
      <4>2. ASSUME NEW f \in files', NEW g \in files', Name(f) = Name(g) PROVE f = g
        <5>1. CASE f \in files /\ Name(f) # Named(p)
          <6>1. g \in files
            BY <3>2, <3>3, <3>5, <4>2, <5>1
          <6> QED BY <4>2, <5>1, <6>1 DEF UploadTypeOK
        <5>2. CASE here = {} /\ f = new
          BY <3>2, <3>5, <4>2, <5>2
        <5>3. CASE \E x \in here : f = [x EXCEPT !.whole = FALSE]
          <6>1. PICK x \in here : f = [x EXCEPT !.whole = FALSE]
            BY <5>3
          <6>2. PICK y \in here : g = [y EXCEPT !.whole = FALSE]
            BY <3>3, <3>5, <4>2, <6>1
          <6> QED BY <3>4, <6>1, <6>2
        <5> QED BY <3>5, <5>1, <5>2, <5>3
      <4> QED BY <4>1, <4>2
    <3>7. mine' \in [Posts -> Posts]
      <4>1. here # {} => (CHOOSE f \in here : TRUE) \in Chunk
        BY DEF UploadTypeOK
      <4>2. here # {} => (CHOOSE f \in here : TRUE).born \in Posts
        BY <4>1 DEF Chunk
      <4> QED BY <1>2, <2>2, <2>0, <4>2 DEF OpenChunk, UploadTypeOK
    <3> QED
      <4>1. step' \in [Posts -> Running \cup {"idle", "done", "failed", "dropped"}]
        <5>1. step' = [step EXCEPT ![p] = "writing"]
          BY <1>2, <2>2 DEF OpenChunk, To
        <5>2. step \in [Posts -> Running \cup {"idle", "done", "failed", "dropped"}]
          BY DEF UploadTypeOK
        <5> QED BY <5>1, <5>2 DEF Running
      <4>2. UNCHANGED <<delivery, folder, unread, sent, joined_up, met, spared, careless>>
        BY <1>2 DEF OpenChunk
      <4> QED BY <2>2, <3>6, <3>7, <4>1, <4>2 DEF UploadTypeOK, Posted
  <2> QED BY <2>1, <2>2 DEF UploadTypeOK
<1>3. ASSUME NEW p \in Posted, WriteChunk(p) PROVE UploadTypeOK'
  <2>0. p \in Posts
    BY DeliveredType
  <2>1. files' \subseteq Chunk /\ (files = {} => files' = {}) /\ \A f, g \in files' : Name(f) = Name(g) => f = g
    <3>0. files \subseteq Chunk
      BY DEF UploadTypeOK
    <3>1. CASE files' = files
      BY <3>1 DEF UploadTypeOK
    <3>2. CASE files' = {IF f.born = mine[p] THEN [f EXCEPT !.whole = TRUE] ELSE f : f \in files}
      <4>1. \A f \in files : [f EXCEPT !.whole = TRUE] \in Chunk /\ Name([f EXCEPT !.whole = TRUE]) = Name(f)
        BY DEF UploadTypeOK, Chunk, Name
      <4>2. \A g \in files' : \E f \in files : Name(g) = Name(f) /\ g = (IF f.born = mine[p] THEN [f EXCEPT !.whole = TRUE] ELSE f)
        <5> SUFFICES ASSUME NEW g \in files'
                     PROVE  \E f \in files : Name(g) = Name(f) /\ g = (IF f.born = mine[p] THEN [f EXCEPT !.whole = TRUE] ELSE f)
          OBVIOUS
        <5>1. PICK f \in files : g = (IF f.born = mine[p] THEN [f EXCEPT !.whole = TRUE] ELSE f)
          BY <3>2
        <5> QED BY <4>1, <5>1
      <4>3. \A g \in files' : g \in Chunk
        <5> SUFFICES ASSUME NEW g \in files' PROVE g \in Chunk
          OBVIOUS
        <5>1. PICK f \in files : g = (IF f.born = mine[p] THEN [f EXCEPT !.whole = TRUE] ELSE f)
          BY <4>2
        <5>2. f \in Chunk /\ [f EXCEPT !.whole = TRUE] \in Chunk
          BY <3>0, <4>1
        <5> QED BY <5>1, <5>2
      <4>4. \A f, g \in files' : Name(f) = Name(g) => f = g
        <5> SUFFICES ASSUME NEW f \in files', NEW g \in files', Name(f) = Name(g) PROVE f = g
          OBVIOUS
        <5>1. PICK x \in files : Name(f) = Name(x) /\ f = (IF x.born = mine[p] THEN [x EXCEPT !.whole = TRUE] ELSE x)
          BY <4>2
        <5>2. PICK y \in files : Name(g) = Name(y) /\ g = (IF y.born = mine[p] THEN [y EXCEPT !.whole = TRUE] ELSE y)
          BY <4>2
        <5>3. x = y
          BY <5>1, <5>2 DEF UploadTypeOK
        <5> QED BY <5>1, <5>2, <5>3
      <4>5. files = {} => files' = {}
        BY <4>2
      <4> QED BY <4>3, <4>4, <4>5
    <3> QED BY <1>3, <3>1, <3>2 DEF WriteChunk
  <2> QED
    BY <1>3, <2>0, <2>1 DEF UploadTypeOK, WriteChunk, To, Running, Posted
<1>4. ASSUME NEW p \in Posted, Stopped(p) PROVE UploadTypeOK'
  BY <1>4, DeliveredType DEF UploadTypeOK, Stopped, To, Running, Posted, Name
<1>5. ASSUME NEW p \in Posted, List(p) PROVE UploadTypeOK'
  <2>0. p \in Posts
    BY DeliveredType
  <2>1. met' \subseteq SUBSET Posted
    <3>1. \A q \in Posted : {p, q} \in SUBSET Posted
      OBVIOUS
    <3>2. met' = met \/ met' = met \cup {{p, q} : q \in {q \in Posted : step[q] \in {"reading", "removing"}}}
      BY <1>5 DEF List
    <3>3. \A m \in met' : m \in met \/ \E q \in Posted : m = {p, q}
      BY <3>2
    <3>4. \A m \in met' : m \in SUBSET Posted
      <4>1. met \subseteq SUBSET Posted
        BY DEF UploadTypeOK
      <4>2. ASSUME NEW m \in met' PROVE m \in SUBSET Posted
        <5>1. CASE m \in met
          BY <4>1, <5>1
        <5>2. CASE \E q \in Posted : m = {p, q}
          BY <3>1, <5>2
        <5> QED BY <3>3, <4>2, <5>1, <5>2
      <4> QED BY <4>2
    <3> QED BY <3>4, <1>5 DEF List, Posted
  <2>2. step' \in [Posts -> Running \cup {"idle", "done", "failed", "dropped"}]
    BY <1>5, <2>0 DEF UploadTypeOK, List, To, Running
  <2>3. UNCHANGED <<delivery, folder, files, mine, joined_up, sent, spared>> /\ careless' \in BOOLEAN
    BY <1>5 DEF List, UploadTypeOK
  <2>4. unread' \in [Posts -> SUBSET [idx : Nat, name : Names]]
    <3>1. {Name(f) : f \in files} \subseteq [idx : Nat, name : Names]
      BY DEF UploadTypeOK, Chunk, Name
    <3>2. unread' = unread \/ unread' = [unread EXCEPT ![p] = {Name(f) : f \in files}]
      BY <1>5 DEF List
    <3>3. unread \in [Posts -> SUBSET [idx : Nat, name : Names]]
      BY DEF UploadTypeOK
    <3> HIDE DEF UploadTypeOK
    <3> QED BY <2>0, <3>1, <3>2, <3>3
  <2> QED BY <2>1, <2>2, <2>3, <2>4 DEF UploadTypeOK, Posted
<1>6. ASSUME NEW p \in Posted, ReadChunk(p) PROVE UploadTypeOK'
  <2>0. p \in Posts
    BY DeliveredType
  <2>1. joined_up' \in [Posts -> Seq(Chunk)]
    <3>1. PICK n \in unread[p] :
             LET here == {f \in files : Name(f) = n} IN
             IF here = {} THEN joined_up' = joined_up
             ELSE joined_up' = [joined_up EXCEPT ![p] = Append(@, CHOOSE f \in here : TRUE)]
      BY <1>6 DEF ReadChunk
    <3> DEFINE here == {f \in files : Name(f) = n}
    <3>2. here # {} => (CHOOSE f \in here : TRUE) \in Chunk
      BY DEF UploadTypeOK
    <3> HIDE DEF here
    <3>3. joined_up[p] \in Seq(Chunk)
      BY <2>0 DEF UploadTypeOK
    <3>4. here # {} => Append(joined_up[p], CHOOSE f \in here : TRUE) \in Seq(Chunk)
      BY <3>2, <3>3
    <3>5. IF here = {} THEN joined_up' = joined_up
          ELSE joined_up' = [joined_up EXCEPT ![p] = Append(@, CHOOSE f \in here : TRUE)]
      BY <3>1 DEF here
    <3> QED BY <2>0, <3>4, <3>5 DEF UploadTypeOK
  <2>2. unread' \in [Posts -> SUBSET [idx : Nat, name : Names]]
    <3>1. PICK n \in unread[p] : unread' = [unread EXCEPT ![p] = @ \ {n}]
      BY <1>6 DEF ReadChunk
    <3> QED BY <2>0, <3>1 DEF UploadTypeOK
  <2>3. step' \in [Posts -> Running \cup {"idle", "done", "failed", "dropped"}]
    <3>1. step' = step \/ step' = [step EXCEPT ![p] = "failed"]
      BY <1>6 DEF ReadChunk, To
    <3> QED BY <2>0, <3>1 DEF UploadTypeOK
  <2>4. UNCHANGED <<delivery, folder, files, mine, sent, met, spared, cut, careless>>
    BY <1>6 DEF ReadChunk
  <2>5. /\ delivery' \in Deliveries /\ sent' \subseteq Posted' /\ met' \subseteq SUBSET Posted'
        /\ folder' \in BOOLEAN /\ careless' \in BOOLEAN /\ mine' \in [Posts -> Posts]
        /\ spared' \subseteq Posted' \X Posts
    BY <2>4 DEF UploadTypeOK, Posted
  <2>6. files' \subseteq Chunk /\ (~folder' => files' = {}) /\ \A f, g \in files' : Name(f) = Name(g) => f = g
    BY <2>4 DEF UploadTypeOK
  <2> QED BY <2>1, <2>2, <2>3, <2>5, <2>6 DEF UploadTypeOK
<1>7. ASSUME NEW p \in Posted, Join(p) PROVE UploadTypeOK'
  BY <1>7, DeliveredType DEF UploadTypeOK, Join, To, Running, Posted, Name
<1>8. ASSUME NEW p \in Posted, SendJoined(p) PROVE UploadTypeOK'
  BY <1>8, DeliveredType DEF UploadTypeOK, SendJoined, To, Running, Posted, Name
<1>9. ASSUME NEW p \in Posted, RemoveChunk(p) PROVE UploadTypeOK'
  <2>1. files' \subseteq files /\ UNCHANGED <<delivery, step, folder, mine, unread, joined_up, sent, met, spared, careless>>
    BY <1>9 DEF RemoveChunk
  <2> QED BY <2>1 DEF UploadTypeOK, Posted
<1>10. ASSUME NEW p \in Posted, EndRemoval(p) PROVE UploadTypeOK'
  <2>0. p \in Posts
    BY DeliveredType
  <2>1. /\ UNCHANGED <<delivery, files, mine, unread, joined_up, sent, met, careless>>
        /\ step' = [step EXCEPT ![p] = "sending"]
        /\ folder' \in BOOLEAN /\ (~folder' => files = {})
    BY <1>10 DEF EndRemoval, To, UploadTypeOK
  <2>2. spared' \subseteq Posted \X Posts
    <3>1. \A f \in files : f.born \in Posts
      BY DEF UploadTypeOK, Chunk
    <3>2. spared' = spared \cup {<<p, b>> : b \in {f.born : f \in files} \cap Read(p)}
      BY <1>10 DEF EndRemoval
    <3> QED BY <3>1, <3>2 DEF UploadTypeOK
  <2>3. step' \in [Posts -> Running \cup {"idle", "done", "failed", "dropped"}]
    BY <2>0, <2>1 DEF UploadTypeOK, Running
  <2> QED BY <2>1, <2>2, <2>3 DEF UploadTypeOK, Posted
<1> QED BY <1>0, <1>1, <1>2, <1>3, <1>4, <1>5, <1>6, <1>7, <1>8, <1>9, <1>10 DEF UploadStep

\* Every variable keeps its type, for any POSTs and deliveries.
THEOREM UploadTypes == UploadSpec => []UploadTypeOK
  BY UploadTyping, UploadTypeStep, PTL DEF UploadSpec

-----------------------------------------------------------------------------
(* The invariant.                                                          *)

Early == {"idle", "opening", "writing", "stopping", "listing"}

LEMMA ChunkInit == UploadInit => ChunkInv
<1> SUFFICES ASSUME UploadInit PROVE ChunkInv
  OBVIOUS
<1>1. files = {} /\ sent = {} /\ \A p \in Posts : step[p] = "idle" /\ joined_up[p] = << >>
  BY DEF UploadInit
<1>2. \A p \in Posts : Read(p) = {}
  BY <1>1 DEF Read
<1>3. \A p \in Posts : ~Joined(p)
  BY <1>1 DEF Joined
<1>4. Posted \subseteq Posts
  BY UploadTyping, DeliveredType
<1> QED BY <1>1, <1>2, <1>3, <1>4 DEF ChunkInv, Born, Order, Meeting, Consumed, Apart, AtFiles

\* A step of p, which has not joined and does not join, that leaves the files to those
\* who created them or opens one of its own.
LEMMA Kept ==
  ASSUME ChunkInv, NEW p \in Posts,
         \A q \in Posts \ {p} : step'[q] = step[q],
         step[p] \in Early \cup {"reading"},
         step'[p] \in Early \cup {"done", "failed", "dropped"},
         step'[p] \in Early => step[p] \in Early,
         step'[p] \in {"idle", "opening"} => step[p] = "idle",
         UNCHANGED <<delivery, joined_up, sent, met, spared>>,
         Posted \subseteq Posts, sent \subseteq Posts,
         \A g \in files' : \/ \E f \in files : f.born = g.born
                           \/ g.born = p /\ step[p] = "opening" /\ step'[p] = "writing",
         \A f \in files : f.born \in Posts,
         \A q \in Posts : Read(q) \subseteq Posts
  PROVE  ChunkInv'
<1> USE DEF Early
<1>1. \A q \in Posts : Read(q)' = Read(q)
  BY DEF Read
<1>p. Posted' = Posted
  BY DEF Posted
<1>2. p \notin sent /\ ~Joined(p)' /\ ~Reader(p)'
  BY DEF ChunkInv, Order, Joined, Reader, AtFiles
<1>3. \A q \in Posts \ {p} : Joined(q)' = Joined(q) /\ Reader(q)' = Reader(q)
  BY DEF Joined, Reader, AtFiles
<1>4. Born'
  <2>1. \A b \in Posts : step[b] \notin {"idle", "opening"} => step'[b] \notin {"idle", "opening"}
    OBVIOUS
  <2>2. \A g \in files' : step'[g.born] \notin {"idle", "opening"}
    BY <2>1 DEF ChunkInv, Born
  <2>3. \A q \in Posts : \A b \in Read(q) : step'[b] \notin {"idle", "opening"}
    BY <2>1 DEF ChunkInv, Born
  <2> QED BY <1>1, <2>2, <2>3 DEF Born
<1>5. Order'
  <2>1. \A q \in Posts : step'[q] \in Early => joined_up'[q] = << >>
    BY DEF ChunkInv, Order
  <2>2. \A q \in sent : q \in Posts \ {p} /\ step'[q] \in {"done", "failed", "dropped"}
    BY <1>2 DEF ChunkInv, Order
  <2> QED BY <2>1, <2>2 DEF Order
<1>6. Meeting'
  <2> SUFFICES ASSUME NEW q \in Posted, NEW r \in Posted, q # r, step'[q] \in AtFiles, step'[r] \in AtFiles
               PROVE  {q, r} \in met
    BY <1>p DEF Meeting
  <2>1. q # p /\ r # p
    BY DEF AtFiles
  <2> QED BY <2>1 DEF ChunkInv, Meeting
<1>7. Consumed'
  <2> SUFFICES ASSUME NEW q \in Posts, Joined(q)', NEW g \in files', g.born \in Read(q)
               PROVE  <<q, g.born>> \in spared
    BY <1>1 DEF Consumed
  <2>1. q # p /\ Joined(q)
    BY <1>2, <1>3
  <2>2. CASE \E f \in files : f.born = g.born
    BY <2>1, <2>2 DEF ChunkInv, Consumed
  <2>3. CASE g.born = p /\ step[p] = "opening"
    BY <2>3 DEF ChunkInv, Born
  <2> QED BY <2>2, <2>3
<1>8. Apart'
  <2>1. ASSUME NEW q \in Posted, NEW r \in Posted, q # r, {q, r} \notin met, Joined(q)', Reader(r)',
               NEW b \in Read(q) \cap Read(r)
        PROVE  Spared(q, b) \/ Spared(r, b)
    BY <1>2, <1>3, <2>1 DEF ChunkInv, Apart
  <2>2. met' = met /\ \A q, b : Spared(q, b)' = Spared(q, b)
    BY DEF Spared
  <2> QED BY <1>1, <1>p, <2>1, <2>2 DEF Apart
<1> QED BY <1>4, <1>5, <1>6, <1>7, <1>8 DEF ChunkInv

LEMMA PartsType ==
  ASSUME UploadTypeOK
  PROVE  /\ \A f \in files : f.born \in Posts
         /\ \A q \in Posts : Read(q) \subseteq Posts
<1>1. \A f \in files : f.born \in Posts
  BY DEF UploadTypeOK, Chunk
<1>2. ASSUME NEW q \in Posts, NEW i \in 1 .. Len(joined_up[q]) PROVE joined_up[q][i].born \in Posts
  <2>1. joined_up[q] \in Seq(Chunk)
    BY DEF UploadTypeOK
  <2>2. joined_up[q][i] \in Chunk
    BY <2>1, <1>2
  <2> QED BY <2>2 DEF Chunk
<1> QED BY <1>1, <1>2 DEF Read

LEMMA ChunkStep == UploadTypeOK /\ ChunkInv /\ [UploadStep]_uploadVars => ChunkInv'
<1> SUFFICES ASSUME UploadTypeOK, ChunkInv, [UploadStep]_uploadVars PROVE ChunkInv'
  OBVIOUS
<1>t. /\ \A f \in files : f.born \in Posts
      /\ \A q \in Posts : Read(q) \subseteq Posts
      /\ step \in [Posts -> Running \cup {"idle", "done", "failed", "dropped"}]
      /\ Posted \subseteq Posts /\ sent \subseteq Posts
  BY PartsType, DeliveredType DEF UploadTypeOK
<1>0. CASE UNCHANGED uploadVars
  <2>1. UNCHANGED <<delivery, step, files, joined_up, sent, met, spared>>
    BY <1>0 DEF uploadVars
  <2>2. \A q : Read(q)' = Read(q) /\ Joined(q)' = Joined(q) /\ Reader(q)' = Reader(q)
    BY <2>1 DEF Read, Joined, Reader
  <2>3. Born' /\ Order'
    BY <2>1, <2>2 DEF ChunkInv, Born, Order
  <2>4. Meeting' /\ Consumed' /\ Apart'
    BY <2>1, <2>2 DEF ChunkInv, Meeting, Consumed, Apart, Posted, Spared
  <2> QED BY <2>3, <2>4 DEF ChunkInv
<1>1. ASSUME NEW p \in Posted, MakeFolder(p) PROVE ChunkInv'
  BY <1>1, <1>t, Kept, DeliveredType DEF MakeFolder, To, Early
<1>2. ASSUME NEW p \in Posted, OpenChunk(p) PROVE ChunkInv'
  <2> DEFINE here == {f \in files : Name(f) = Named(p)}
             new  == [idx |-> delivery[p].idx, name |-> delivery[p].name, born |-> p, whole |-> FALSE]
  <2>0. p \in Posts
    BY DeliveredType
  <2>1. CASE ~folder
    BY <1>2, <1>t, <2>0, <2>1, Kept DEF OpenChunk, To, Early
  <2>2. CASE folder
    <3>1. files' = (files \ here) \cup
                    (IF here = {} THEN {new} ELSE {[f EXCEPT !.whole = FALSE] : f \in here})
      BY <1>2, <2>2 DEF OpenChunk
    <3>2. \A f \in here : f \in files /\ [f EXCEPT !.whole = FALSE].born = f.born
      BY DEF UploadTypeOK, Chunk
    <3>3. new.born = p
      OBVIOUS
    <3> HIDE DEF new
    <3>4. \A g \in files' : (\E f \in files : f.born = g.born) \/ g.born = p
      BY <3>1, <3>2, <3>3
    <3>5. /\ step[p] = "opening" /\ step' = [step EXCEPT ![p] = "writing"] 
          /\ UNCHANGED <<delivery, joined_up, sent, met, spared>>
      BY <1>2, <2>2 DEF OpenChunk, To
    <3> QED BY <1>t, <2>0, <3>4, <3>5, Kept DEF Early
  <2> QED BY <2>1, <2>2
<1>3. ASSUME NEW p \in Posted, WriteChunk(p) PROVE ChunkInv'
  <2>0. p \in Posts
    BY DeliveredType
  <2>1. \A f \in files : [f EXCEPT !.whole = TRUE].born = f.born
    BY DEF UploadTypeOK, Chunk
  <2>2. \A g \in files' : \E f \in files : f.born = g.born
    <3>1. CASE files' = files
      BY <3>1
    <3>2. CASE files' = {IF f.born = mine[p] THEN [f EXCEPT !.whole = TRUE] ELSE f : f \in files}
      <4> SUFFICES ASSUME NEW g \in files' PROVE \E f \in files : f.born = g.born
        OBVIOUS
      <4>1. PICK f \in files : g = (IF f.born = mine[p] THEN [f EXCEPT !.whole = TRUE] ELSE f)
        BY <3>2
      <4> QED BY <2>1, <4>1
    <3> QED BY <1>3, <3>1, <3>2 DEF WriteChunk
  <2> QED BY <1>3, <1>t, <2>0, <2>2, Kept DEF WriteChunk, To, Early
<1>4. ASSUME NEW p \in Posted, Stopped(p) PROVE ChunkInv'
  BY <1>4, <1>t, Kept, DeliveredType DEF Stopped, To, Early
<1>5. ASSUME NEW p \in Posted, List(p) PROVE ChunkInv'
  <2>0. p \in Posts
    BY DeliveredType
  <2>1. CASE ~(folder /\ Present(p))
    BY <1>5, <1>t, <2>0, <2>1, Kept DEF List, To, Early
  <2>2. CASE folder /\ Present(p)
    <3>1. /\ step[p] = "listing" /\ step' = [step EXCEPT ![p] = "reading"]
          /\ met' = met \cup {{p, q} : q \in {q \in Posted : step[q] \in AtFiles}}
          /\ UNCHANGED <<delivery, joined_up, sent, files, spared>>
      BY <1>5, <2>2 DEF List, To, AtFiles
    <3>2. \A q \in Posts : Read(q)' = Read(q)
      BY <3>1 DEF Read
    <3>3. joined_up[p] = << >> /\ Read(p) = {} /\ p \notin sent
      BY <3>1, <2>0 DEF ChunkInv, Order, Read
    <3>4. \A q \in Posts : /\ Joined(q)' => Joined(q)
                           /\ q # p /\ Reader(q)' => Reader(q)
      BY <3>1, <1>t, <2>0 DEF Joined, Reader, AtFiles
    <3>5. Born'
      BY <3>1, <3>2, <1>t, <2>0 DEF ChunkInv, Born
    <3>6. Order'
      BY <3>1, <3>3, <1>t, <2>0 DEF ChunkInv, Order
    <3>p. Posted' = Posted /\ met \subseteq met' /\ \A q, b : Spared(q, b)' = Spared(q, b)
      BY <3>1 DEF Posted, Spared
    <3>7. Meeting'
      <4> SUFFICES ASSUME NEW q \in Posted, NEW r \in Posted, q # r, step'[q] \in AtFiles, step'[r] \in AtFiles
                   PROVE  {q, r} \in met'
        BY <3>p DEF Meeting
      <4>1. CASE q # p /\ r # p
        BY <3>1, <3>p, <1>t, <4>1 DEF ChunkInv, Meeting
      <4>2. CASE q = p
        <5>1. step[r] \in AtFiles
          BY <3>1, <1>t, <4>2
        <5> QED BY <3>1, <4>2, <5>1
      <4>3. CASE r = p
        <5>1. step[q] \in AtFiles /\ {q, r} = {p, q}
          BY <3>1, <1>t, <4>3
        <5> QED BY <3>1, <5>1
      <4> QED BY <4>1, <4>2, <4>3
    <3>8. Consumed'
      <4> SUFFICES ASSUME NEW q \in Posts, Joined(q)', NEW f \in files', f.born \in Read(q)'
                   PROVE  <<q, f.born>> \in spared'
        BY DEF Consumed
      <4> QED BY <3>1, <3>2, <3>4 DEF ChunkInv, Consumed
    <3>9. Apart'
      <4>1. ASSUME NEW q \in Posted, NEW r \in Posted, q # r, {q, r} \notin met', Joined(q)', Reader(r)',
                   NEW b \in Read(q) \cap Read(r)
            PROVE  Spared(q, b) \/ Spared(r, b)
        <5>1. {q, r} \notin met /\ Joined(q)
          BY <3>p, <3>4, <4>1, <1>t
        <5>2. r # p
          BY <3>3, <4>1
        <5> QED BY <3>4, <4>1, <5>1, <5>2, <1>t DEF ChunkInv, Apart
      <4> QED BY <3>2, <3>p, <4>1, <1>t DEF Apart
    <3> QED BY <3>5, <3>6, <3>7, <3>8, <3>9 DEF ChunkInv
  <2> QED BY <2>1, <2>2
<1>6. ASSUME NEW p \in Posted, ReadChunk(p) PROVE ChunkInv'
  <2>0. p \in Posts
    BY DeliveredType
  <2>1. step[p] = "reading" /\ UNCHANGED <<delivery, files, sent, met, spared>>
    BY <1>6 DEF ReadChunk
  <2>2. CASE step' # step
    BY <1>6, <1>t, <2>0, <2>1, <2>2, Kept DEF ReadChunk, To, Early
  <2>3. CASE step' = step
    <3>1. PICK f \in files : joined_up' = [joined_up EXCEPT ![p] = Append(@, f)]
      BY <1>6, <2>1, <2>3, <1>t, <2>0 DEF ReadChunk, To
    <3>2. Read(p)' = Read(p) \cup {f.born}
      <4>1. joined_up[p] \in Seq(Chunk) /\ f \in Chunk /\ joined_up'[p] = Append(joined_up[p], f)
        BY <3>1, <2>0 DEF UploadTypeOK
      <4>2. /\ Len(joined_up'[p]) = Len(joined_up[p]) + 1 /\ Len(joined_up[p]) \in Nat
            /\ joined_up'[p][Len(joined_up[p]) + 1] = f
            /\ \A i \in 1 .. Len(joined_up[p]) : joined_up'[p][i] = joined_up[p][i]
        BY <4>1
      <4>3. f.born \in Read(p)'
        BY <4>2 DEF Read
      <4>4. Read(p) \subseteq Read(p)'
        <5> SUFFICES ASSUME NEW i \in 1 .. Len(joined_up[p]) PROVE joined_up[p][i].born \in Read(p)'
          BY DEF Read
        <5> QED BY <4>2 DEF Read
      <4>5. Read(p)' \subseteq Read(p) \cup {f.born}
        <5> SUFFICES ASSUME NEW i \in 1 .. Len(joined_up'[p])
                     PROVE  joined_up'[p][i].born \in Read(p) \cup {f.born}
          BY DEF Read
        <5>1. CASE i = Len(joined_up[p]) + 1
          BY <4>2, <5>1
        <5>2. CASE i \in 1 .. Len(joined_up[p])
          BY <4>2, <5>2 DEF Read
        <5> QED BY <4>2, <5>1, <5>2
      <4> QED BY <4>3, <4>4, <4>5
    <3>3. \A q \in Posts \ {p} : Read(q)' = Read(q)
      BY <3>1, <2>0 DEF Read, UploadTypeOK
    <3>4. \A q \in Posts : Joined(q)' = Joined(q) /\ Reader(q)' = Reader(q)
      BY <2>1, <2>3 DEF Joined, Reader
    <3>5. ~Joined(p) /\ Reader(p)
      BY <2>0, <2>1 DEF ChunkInv, Order, Joined, Reader, AtFiles
    <3>6. Born'
      BY <2>1, <2>3, <3>2, <3>3 DEF ChunkInv, Born
    <3>7. Order'
      BY <2>1, <2>3, <3>1 DEF ChunkInv, Order, UploadTypeOK
    <3>8. Meeting'
      BY <2>1, <2>3 DEF ChunkInv, Meeting, Posted
    <3>9. Consumed'
      BY <2>1, <3>3, <3>4, <3>5 DEF ChunkInv, Consumed
    <3>10. Apart'
      <4>1. ASSUME NEW q \in Posted, NEW r \in Posted, q # r, {q, r} \notin met, Joined(q), Reader(r),
                   NEW b \in Read(q)' \cap Read(r)'
            PROVE  Spared(q, b) \/ Spared(r, b)
        <5>1. q # p /\ b \in Read(q)
          BY <3>3, <3>5, <4>1, <1>t
        <5>2. CASE b \in Read(r)
          BY <4>1, <5>1, <5>2 DEF ChunkInv, Apart
        <5>3. CASE b \notin Read(r)
          <6>1. b = f.born
            BY <3>2, <3>3, <4>1, <5>3, <1>t
          <6> QED BY <4>1, <5>1, <6>1, <1>t DEF ChunkInv, Consumed, Spared
        <5> QED BY <5>2, <5>3
      <4>2. Posted' = Posted /\ met' = met /\ \A q, b : Spared(q, b)' = Spared(q, b)
        BY <2>1 DEF Posted, Spared
      <4> QED BY <3>4, <4>1, <4>2, <1>t DEF Apart
    <3> QED BY <3>6, <3>7, <3>8, <3>9, <3>10 DEF ChunkInv
  <2> QED BY <2>2, <2>3
<1>7. ASSUME NEW p \in Posted, Join(p) PROVE ChunkInv'
  <2>0. p \in Posts
    BY DeliveredType
  <2>1. CASE step' = [step EXCEPT ![p] = "failed"]
    BY <1>7, <1>t, <2>0, <2>1, Kept DEF Join, To, Early
  <2>2. CASE step' = [step EXCEPT ![p] = "removing"]
    <3>1. step[p] = "reading" /\ UNCHANGED <<delivery, files, joined_up, sent, met, spared>>
      BY <1>7 DEF Join
    <3>2. /\ \A q \in Posts : Read(q)' = Read(q) /\ Joined(q)' = Joined(q) /\ Reader(q)' = Reader(q)
          /\ \A q \in Posts : step'[q] \in AtFiles => step[q] \in AtFiles
          /\ \A q, b : Spared(q, b)' = Spared(q, b)
      BY <2>2, <3>1, <1>t, <2>0 DEF Read, Joined, Reader, AtFiles, Spared
    <3>3. Born' /\ Order'
      BY <2>2, <3>1, <3>2, <1>t, <2>0 DEF ChunkInv, Born, Order
    <3>4. Meeting' /\ Consumed' /\ Apart'
      BY <3>1, <3>2, <1>t DEF ChunkInv, Meeting, Consumed, Apart, Posted
    <3> QED BY <3>3, <3>4 DEF ChunkInv
  <2> QED BY <1>7, <2>1, <2>2 DEF Join, To
<1>9. ASSUME NEW p \in Posted, RemoveChunk(p) PROVE ChunkInv'
  <2>1. files' \subseteq files /\ UNCHANGED <<delivery, step, joined_up, sent, met, spared>>
    BY <1>9 DEF RemoveChunk
  <2>2. \A q, b : /\ Read(q)' = Read(q) /\ Joined(q)' = Joined(q) /\ Reader(q)' = Reader(q)
                  /\ Spared(q, b)' = Spared(q, b)
    BY <2>1 DEF Read, Joined, Reader, Spared
  <2>3. Born' /\ Order'
    BY <2>1, <2>2 DEF ChunkInv, Born, Order
  <2>4. Meeting' /\ Consumed' /\ Apart'
    BY <2>1, <2>2 DEF ChunkInv, Meeting, Consumed, Apart, Posted
  <2> QED BY <2>3, <2>4 DEF ChunkInv
<1>10. ASSUME NEW p \in Posted, EndRemoval(p) PROVE ChunkInv'
  <2>0. p \in Posts
    BY DeliveredType
  <2>1. /\ step[p] = "removing" /\ step' = [step EXCEPT ![p] = "sending"]
        /\ UNCHANGED <<delivery, files, joined_up, sent, met>>
    BY <1>10 DEF EndRemoval, To
  <2>2. /\ \A q, b : Spared(q, b) => Spared(q, b)'
        /\ \A f \in files : f.born \in Read(p) => Spared(p, f.born)'
    BY <1>10 DEF EndRemoval, Spared
  <2>3. /\ \A q \in Posts : Read(q)' = Read(q) /\ Reader(q)' = Reader(q)
        /\ \A q \in Posts \ {p} : Joined(q)' = Joined(q)
    BY <2>1, <1>t, <2>0 DEF Read, Joined, Reader, AtFiles
  <2>4. Born'
    BY <2>1, <2>3, <1>t, <2>0 DEF ChunkInv, Born
  <2>5. Order'
    BY <2>1, <1>t, <2>0 DEF ChunkInv, Order
  <2>6. Meeting'
    BY <2>1, <1>t, <2>0 DEF ChunkInv, Meeting, Posted, AtFiles
  <2>7. Consumed'
    <3> SUFFICES ASSUME NEW q \in Posts, Joined(q)', NEW f \in files, f.born \in Read(q)
                 PROVE  Spared(q, f.born)'
      BY <2>1, <2>3 DEF Consumed, Spared
    <3>1. CASE q = p
      BY <2>2, <3>1
    <3>2. CASE q # p
      BY <2>2, <2>3, <3>2 DEF ChunkInv, Consumed, Spared
    <3> QED BY <3>1, <3>2
  <2>8. ASSUME NEW q \in Posted, NEW r \in Posted, q # r, {q, r} \notin met, Joined(q)', Reader(r)',
               NEW b \in Read(q) \cap Read(r)
        PROVE  Spared(q, b) \/ Spared(r, b)
    <3>1. CASE q # p
      BY <2>3, <2>8, <3>1, <1>t DEF ChunkInv, Apart
    <3>2. CASE q = p
      <4>1. Reader(r) /\ r # p /\ step[p] \in AtFiles
        BY <2>1, <2>3, <2>8, <3>2, <1>t DEF AtFiles
      <4>2. CASE step[r] \in AtFiles
        BY <2>8, <3>2, <4>1, <4>2, <2>0 DEF ChunkInv, Meeting
      <4>3. CASE Joined(r)
        <5>1. {r, p} \notin met /\ Reader(p) /\ b \in Read(r) \cap Read(p)
          BY <2>8, <3>2, <4>1 DEF Reader
        <5> QED BY <3>2, <4>1, <4>3, <5>1, <2>0 DEF ChunkInv, Apart
      <4> QED BY <4>1, <4>2, <4>3 DEF Reader
    <3> QED BY <3>1, <3>2
  <2>9. Apart'
    <3>1. met' = met /\ Posted' = Posted
      BY <2>1 DEF Posted
    <3> QED BY <2>2, <2>3, <2>8, <3>1, <1>t DEF Apart
  <2> QED BY <2>4, <2>5, <2>6, <2>7, <2>9 DEF ChunkInv
<1>8. ASSUME NEW p \in Posted, SendJoined(p) PROVE ChunkInv'
  <2>0. p \in Posts
    BY DeliveredType
  <2>1. /\ step[p] = "sending" /\ sent' \in {sent, sent \cup {p}}
        /\ \E x \in {"done", "failed", "dropped"} : step' = [step EXCEPT ![p] = x]
        /\ UNCHANGED <<delivery, files, joined_up, met, spared>>
    BY <1>8 DEF SendJoined, To
  <2>2. \A q \in Posts : Read(q)' = Read(q) /\ \A b : Spared(q, b)' = Spared(q, b)
    BY <2>1 DEF Read, Spared
  <2>3. \A q \in Posts : (Joined(q)' => Joined(q)) /\ (Reader(q)' => Reader(q))
    BY <2>1, <1>t, <2>0 DEF Joined, Reader, AtFiles
  <2>4. Born'
    BY <2>1, <2>2, <1>t, <2>0 DEF ChunkInv, Born
  <2>5. Order'
    BY <2>1, <1>t, <2>0 DEF ChunkInv, Order
  <2>6. Meeting'
    BY <2>1, <1>t, <2>0 DEF ChunkInv, Meeting, Posted, AtFiles
  <2>7. Consumed'
    BY <2>1, <2>2, <2>3 DEF ChunkInv, Consumed
  <2>8. Apart'
    BY <2>1, <2>2, <2>3, <1>t DEF ChunkInv, Apart, Posted
  <2> QED BY <2>4, <2>5, <2>6, <2>7, <2>8 DEF ChunkInv
<1> QED BY <1>0, <1>1, <1>2, <1>3, <1>4, <1>5, <1>6, <1>7, <1>8, <1>9, <1>10 DEF UploadStep

LEMMA ApartSent == UploadTypeOK /\ ChunkInv => ChunkSentOnce
<1> SUFFICES ASSUME UploadTypeOK, ChunkInv, NEW p \in sent, NEW q \in sent, p # q, {p, q} \notin met,
                    NEW b \in Read(p) \cap Read(q)
             PROVE  <<p, b>> \in spared \/ <<q, b>> \in spared
  BY DEF ChunkSentOnce
<1>1. p \in Posted /\ q \in Posted
  BY DeliveredType DEF UploadTypeOK
<1>2. Joined(p) /\ Reader(q)
  BY DEF Joined, Reader
<1> QED BY <1>1, <1>2 DEF ChunkInv, Apart, Spared

\* A chunk is part of one attachment sent, unless of two last POSTs one listed the
\* directory while the other read or removed it, or a removal failed and left the
\* chunk: for any POSTs, in any order and side by side.
THEOREM SentApart == UploadSpec => []ChunkSentOnce
<1>1. UploadInit => UploadTypeOK /\ ChunkInv
  BY UploadTyping, ChunkInit
<1>2. UploadTypeOK /\ ChunkInv /\ [UploadStep]_uploadVars => (UploadTypeOK /\ ChunkInv)'
  BY UploadTypeStep, ChunkStep
<1> QED BY <1>1, <1>2, ApartSent, PTL DEF UploadSpec

-----------------------------------------------------------------------------
(* Sent in full, to a client that gives all chunks one name and one total. *)
(* As many files as there are indices, of distinct indices below the total: *)
(* each is there (Fitting, List).  What p has read and what it has still to *)
(* read are then the indices from 0 to the total, cut where it stands       *)
(* (Ordered).  As long as nothing was careless, one POST runs at a time,    *)
(* and an index whose file is cut is known (Careful).                       *)

Fitting ==
    /\ \A p \in Posted : step[p] \in Running => delivery[p].idx < delivery[p].total
    /\ \A f \in files, p \in Posted : f.idx < delivery[p].total /\ f.name = delivery[p].name

\* p has read all it listed.
Full(p) == step[p] = "removing" \/ Joined(p)

OrderedOf(p) ==
    /\ Reader(p) => \A i \in 1 .. Len(joined_up[p]) : joined_up[p][i].idx = i - 1
    /\ Full(p) => Len(joined_up[p]) = delivery[p].total
    /\ step[p] = "reading" =>
          /\ Len(joined_up[p]) <= delivery[p].total
          /\ \A n : n \in unread[p] <=>
                \E k \in Len(joined_up[p]) .. delivery[p].total - 1 :
                    n = [idx |-> k, name |-> delivery[p].name]

Ordered == \A p \in Posted : OrderedOf(p)

\* One POST at a time.
Alone == \A p, q \in Posted : step[p] \in Running /\ step[q] \in Running => p = q

\* A file that is not whole has its index in cut.
CutKnown == \A f \in files : f.whole \/ f.idx \in cut

\* A POST that writes has the file of its index open.
OwnFile ==
    \A p \in Posted : step[p] = "writing" =>
        \A f \in files : f.idx = delivery[p].idx => f.born = mine[p]

WholeRead ==
    \A p \in Posted :
        /\ step[p] = "reading" => \A f \in files : f.whole
        /\ Reader(p) => \A i \in 1 .. Len(joined_up[p]) : joined_up[p][i].whole

Careful == ~careless => Alone /\ CutKnown /\ OwnFile /\ WholeRead

FullInv == OneName => Fitting /\ Ordered /\ Careful

LEMMA FullInit == UploadInit => FullInv
<1> SUFFICES ASSUME UploadInit PROVE Fitting /\ Ordered /\ Careful
  BY DEF FullInv
<1>1. files = {} /\ sent = {} /\ \A p \in Posts : step[p] = "idle" /\ joined_up[p] = << >>
  BY DEF UploadInit
<1>2. Posted \subseteq Posts
  BY UploadTyping, DeliveredType
<1>3. \A p \in Posted : ~Joined(p) /\ ~Reader(p)
  BY <1>1, <1>2 DEF Joined, Reader, AtFiles
<1>4. Fitting
  BY <1>1, <1>2 DEF Fitting, Running
<1>5. Ordered
  BY <1>1, <1>2, <1>3 DEF Ordered, OrderedOf, Full
<1>6. Careful
  BY <1>1, <1>2, <1>3 DEF Careful, Alone, CutKnown, OwnFile, WholeRead, Running
<1> QED BY <1>4, <1>5, <1>6

\* Who has read in the next state and did not read before has listed the directory.
LEMMA ReaderFrom ==
  ASSUME UploadTypeOK, Order, NEW p \in Posted, NEW q \in Posted,
         \/ MakeFolder(p) \/ OpenChunk(p) \/ WriteChunk(p) \/ Stopped(p)
         \/ List(p) \/ ReadChunk(p) \/ Join(p) \/ RemoveChunk(p) \/ EndRemoval(p) \/ SendJoined(p)
  PROVE  /\ Posted' = Posted /\ delivery' = delivery
         /\ q # p => step'[q] = step[q]
         /\ Full(q)' => Full(q) \/ (Join(p) /\ q = p)
         /\ Reader(q)' => Reader(q) \/ (List(p) /\ q = p)
         /\ step'[q] = "reading" => step[q] = "reading" \/ (List(p) /\ q = p)
<1>0. p \in Posts /\ q \in Posts /\ step \in [Posts -> Running \cup {"idle", "done", "failed", "dropped"}]
  BY DeliveredType DEF UploadTypeOK
<1> DEFINE Moves(x) == /\ step' = [step EXCEPT ![p] = x] /\ sent' = sent
                       /\ x = "reading" => List(p)
                       /\ x = "removing" => Join(p) /\ step[p] = "reading"
                       /\ x = "sending" => step[p] = "removing"
           Sends    == /\ step[p] = "sending" /\ sent' \in {sent, sent \cup {p}}
                       /\ \E x \in {"done", "failed", "dropped"} : step' = [step EXCEPT ![p] = x]
<1>1. delivery' = delivery /\ ((step' = step /\ sent' = sent) \/ (\E x : Moves(x)) \/ Sends)
  <2>1. CASE MakeFolder(p)
    BY <2>1 DEF MakeFolder, To
  <2>2. CASE OpenChunk(p)
    BY <2>2 DEF OpenChunk, To
  <2>3. CASE WriteChunk(p)
    <3>1. /\ delivery' = delivery /\ sent' = sent
          /\ step' \in {[step EXCEPT ![p] = x] : x \in {"stopping", "done", "failed"}}
      BY <2>3 DEF WriteChunk, To
    <3> QED BY <3>1
  <2>4. CASE Stopped(p)
    BY <2>4 DEF Stopped, To
  <2>5. CASE List(p)
    BY <2>5 DEF List, To
  <2>6. CASE ReadChunk(p)
    <3>1. delivery' = delivery /\ sent' = sent /\ step' \in {step, [step EXCEPT ![p] = "failed"]}
      BY <2>6 DEF ReadChunk, To
    <3> QED BY <3>1
  <2>7. CASE Join(p)
    BY <2>7 DEF Join, To
  <2>8. CASE SendJoined(p)
    BY <2>8 DEF SendJoined, To
  <2>9. CASE RemoveChunk(p)
    BY <2>9 DEF RemoveChunk
  <2>10. CASE EndRemoval(p)
    BY <2>10 DEF EndRemoval, To
  <2> QED BY <2>1, <2>2, <2>3, <2>4, <2>5, <2>6, <2>7, <2>8, <2>9, <2>10
<1>2. Posted' = Posted
  BY <1>1 DEF Posted
<1>3. CASE step' = step /\ sent' = sent
  BY <1>1, <1>2, <1>3 DEF Joined, Reader, Full
<1>4. ASSUME NEW x, Moves(x)
      PROVE  /\ q # p => step'[q] = step[q]
             /\ Full(q)' => Full(q) \/ (Join(p) /\ q = p)
             /\ Reader(q)' => Reader(q) \/ (List(p) /\ q = p)
             /\ step'[q] = "reading" => step[q] = "reading" \/ (List(p) /\ q = p)
  <2>1. CASE q = p
    BY <1>0, <1>4, <2>1 DEF Joined, Reader, Full, AtFiles
  <2>2. CASE q # p
    BY <1>0, <1>4, <2>2 DEF Joined, Reader, Full, AtFiles
  <2> QED BY <2>1, <2>2
<1>5. CASE Sends
  BY <1>0, <1>1, <1>2, <1>5 DEF Joined, Reader, Full, AtFiles
<1> QED BY <1>1, <1>2, <1>3, <1>4, <1>5

\* A file is there already, perhaps whole or cut now, or is of the POST that opens it.
LEMMA FilesFrom ==
  ASSUME UploadTypeOK, NEW p \in Posted,
         \/ MakeFolder(p) \/ OpenChunk(p) \/ WriteChunk(p) \/ Stopped(p)
         \/ List(p) \/ ReadChunk(p) \/ Join(p) \/ RemoveChunk(p) \/ EndRemoval(p) \/ SendJoined(p)
  PROVE  \A g \in files' :
            \/ \E f \in files : g.idx = f.idx /\ g.name = f.name
            \/ step[p] = "opening" /\ g.idx = delivery[p].idx /\ g.name = delivery[p].name
<1>1. CASE files' = files
  BY <1>1
<1>2. CASE OpenChunk(p) /\ folder
  <2> DEFINE here == {f \in files : Name(f) = Named(p)}
             new  == [idx |-> delivery[p].idx, name |-> delivery[p].name, born |-> p, whole |-> FALSE]
  <2>1. files' = (files \ here) \cup
                  (IF here = {} THEN {new} ELSE {[f EXCEPT !.whole = FALSE] : f \in here})
    BY <1>2 DEF OpenChunk
  <2>2. \A f \in here : /\ f \in files
                        /\ [f EXCEPT !.whole = FALSE].idx = f.idx
                        /\ [f EXCEPT !.whole = FALSE].name = f.name
    BY DEF UploadTypeOK, Chunk
  <2>3. new.idx = delivery[p].idx /\ new.name = delivery[p].name
    OBVIOUS
  <2>4. step[p] = "opening"
    BY <1>2 DEF OpenChunk
  <2> HIDE DEF new
  <2> SUFFICES ASSUME NEW g \in files'
               PROVE  \/ \E f \in files : g.idx = f.idx /\ g.name = f.name
                      \/ g = new
    BY <2>3, <2>4
  <2>5. g \in files \/ g = new \/ \E f \in here : g = [f EXCEPT !.whole = FALSE]
    BY <2>1
  <2> QED BY <2>2, <2>5
<1>3. CASE files' = {IF f.born = mine[p] THEN [f EXCEPT !.whole = TRUE] ELSE f : f \in files}
  <2>1. \A f \in files : /\ [f EXCEPT !.whole = TRUE].idx = f.idx
                         /\ [f EXCEPT !.whole = TRUE].name = f.name
    BY DEF UploadTypeOK, Chunk
  <2> SUFFICES ASSUME NEW g \in files' PROVE \E f \in files : g.idx = f.idx /\ g.name = f.name
    OBVIOUS
  <2>2. PICK f \in files : g = (IF f.born = mine[p] THEN [f EXCEPT !.whole = TRUE] ELSE f)
    BY <1>3
  <2> QED BY <2>1, <2>2
<1>4. CASE files' \subseteq files
  BY <1>4
<1> QED
  <2>1. OpenChunk(p) => files' = files \/ folder
    BY DEF OpenChunk
  <2>2. WriteChunk(p) => \/ files' = files
                         \/ files' = {IF f.born = mine[p] THEN [f EXCEPT !.whole = TRUE] ELSE f : f \in files}
    BY DEF WriteChunk
  <2>3. RemoveChunk(p) => files' \subseteq files
    BY DEF RemoveChunk
  <2>4. MakeFolder(p) \/ Stopped(p) \/ List(p) \/ ReadChunk(p) \/ Join(p) \/ EndRemoval(p) \/ SendJoined(p) =>
           files' = files
    BY DEF MakeFolder, Stopped, List, ReadChunk, Join, EndRemoval, SendJoined
  <2> QED BY <1>1, <1>2, <1>3, <1>4, <2>1, <2>2, <2>3, <2>4

LEMMA FittingStep ==
  ASSUME UploadTypeOK, Order, OneName, Fitting, NEW p \in Posted,
         \/ MakeFolder(p) \/ OpenChunk(p) \/ WriteChunk(p) \/ Stopped(p)
         \/ List(p) \/ ReadChunk(p) \/ Join(p) \/ RemoveChunk(p) \/ EndRemoval(p) \/ SendJoined(p)
  PROVE  Fitting'
<1>0. Posted' = Posted /\ delivery' = delivery /\ \A q \in Posted \ {p} : step'[q] = step[q]
  BY ReaderFrom
<1>1. step'[p] \in Running => delivery[p].idx < delivery[p].total
  <2>1. step'[p] \in Running => step[p] \in Running \/ (MakeFolder(p) /\ step'[p] = "opening")
    <3>0. p \in Posts /\ step \in [Posts -> Running \cup {"idle", "done", "failed", "dropped"}]
      BY DeliveredType DEF UploadTypeOK
    <3>1. CASE MakeFolder(p)
      BY <3>0, <3>1 DEF MakeFolder, To, Running
    <3>2. CASE ~MakeFolder(p)
      <4>1. /\ OpenChunk(p) => step[p] = "opening"
            /\ WriteChunk(p) => step[p] = "writing"
            /\ Stopped(p) => step[p] = "stopping"
            /\ List(p) => step[p] = "listing"
        BY DEF OpenChunk, WriteChunk, Stopped, List
      <4>2. /\ ReadChunk(p) \/ Join(p) => step[p] = "reading"
            /\ RemoveChunk(p) \/ EndRemoval(p) => step[p] = "removing"
            /\ SendJoined(p) => step[p] = "sending"
        BY DEF ReadChunk, Join, RemoveChunk, EndRemoval, SendJoined
      <4> QED BY <3>2, <4>1, <4>2 DEF Running
    <3> QED BY <3>1, <3>2
  <2>2. MakeFolder(p) /\ step'[p] = "opening" => delivery[p].idx < delivery[p].total
    <3>0. p \in Posts /\ step \in [Posts -> Running \cup {"idle", "done", "failed", "dropped"}]
      BY DeliveredType DEF UploadTypeOK
    <3> QED BY <3>0 DEF MakeFolder, To
  <2> QED BY <2>1, <2>2 DEF Fitting
<1>2. ASSUME NEW g \in files', NEW q \in Posted PROVE g.idx < delivery[q].total /\ g.name = delivery[q].name
  <2>1. CASE \E f \in files : g.idx = f.idx /\ g.name = f.name
    BY <2>1 DEF Fitting
  <2>2. CASE step[p] = "opening" /\ g.idx = delivery[p].idx /\ g.name = delivery[p].name
    BY <2>2 DEF Fitting, OneName, Running
  <2> QED BY <2>1, <2>2, FilesFrom
<1> QED BY <1>0, <1>1, <1>2 DEF Fitting

\* As many files as indices: every index is there.
LEMMA AllThere ==
  ASSUME UploadTypeOK, OneName, Fitting, NEW p \in Posted, Present(p)
  PROVE  \A n : n \in {Name(f) : f \in files} <=>
            \E k \in 0 .. delivery[p].total - 1 : n = [idx |-> k, name |-> delivery[p].name]
<1> DEFINE T == delivery[p].total
           at == [f \in files |-> f.idx]
<1>1. T \in Nat
  BY DeliveredType
<1>2. \A f \in files : f.idx \in 0 .. T - 1 /\ f.name = delivery[p].name
  BY <1>1 DEF UploadTypeOK, Chunk, Fitting
<1>3. at \in Injection(files, 0 .. T - 1)
  <2>1. \A f, g \in files : f.idx = g.idx => f = g
    BY <1>2 DEF UploadTypeOK, Name
  <2> QED BY <1>2, <2>1 DEF Injection, IsInjective
<1>4. IsFiniteSet(0 .. T - 1) /\ Cardinality(0 .. T - 1) = T
  <2> HIDE DEF T
  <2>1. T - 1 \in Int /\ 0 \in Int
    BY <1>1
  <2>2. IsFiniteSet(0 .. T - 1) /\ Cardinality(0 .. T - 1) = IF 0 > T - 1 THEN 0 ELSE T - 1 - 0 + 1
    BY <2>1, FS_Interval, Zenon
  <2>3. (IF 0 > T - 1 THEN 0 ELSE T - 1 - 0 + 1) = T
    BY <1>1
  <2> QED BY <2>2, <2>3
<1>5. at \in Surjection(files, 0 .. T - 1)
  <2>1. Cardinality(files) = T
    BY DEF Present
  <2> QED BY <1>3, <1>4, <2>1, FS_Injection
<1>6. \A k \in 0 .. T - 1 : \E f \in files : f.idx = k
  BY <1>5 DEF Surjection
<1> QED BY <1>2, <1>6 DEF Name

\* What the others have read and have to read is theirs.
LEMMA Others ==
  ASSUME UploadTypeOK, NEW p \in Posted, NEW q \in Posted, q # p,
         \/ MakeFolder(p) \/ OpenChunk(p) \/ WriteChunk(p) \/ Stopped(p)
         \/ List(p) \/ ReadChunk(p) \/ Join(p) \/ RemoveChunk(p) \/ EndRemoval(p) \/ SendJoined(p)
  PROVE  joined_up'[q] = joined_up[q] /\ unread'[q] = unread[q]
<1>0. p \in Posts /\ q \in Posts
  BY DeliveredType
<1>1. CASE List(p)
  <2>1. joined_up' = joined_up /\ \E S : unread' \in {unread, [unread EXCEPT ![p] = S]}
    BY <1>1 DEF List
  <2> QED BY <1>0, <2>1 DEF UploadTypeOK
<1>2. CASE ReadChunk(p)
  <2>1. \E S, s : /\ unread' = [unread EXCEPT ![p] = S]
                  /\ joined_up' \in {joined_up, [joined_up EXCEPT ![p] = s]}
    BY <1>2 DEF ReadChunk
  <2> QED BY <1>0, <2>1 DEF UploadTypeOK
<1>3. CASE ~List(p) /\ ~ReadChunk(p)
  BY <1>3 DEF MakeFolder, OpenChunk, WriteChunk, Stopped, Join, RemoveChunk, EndRemoval, SendJoined
<1> QED BY <1>1, <1>2, <1>3

\* A file read is the next in order.
LEMMA ReadInOrder ==
  ASSUME UploadTypeOK, Ordered, NEW p \in Posted, ReadChunk(p), step' = step
  PROVE  \E f \in files :
            /\ f.idx = Len(joined_up[p]) /\ Len(joined_up[p]) < delivery[p].total
            /\ joined_up' = [joined_up EXCEPT ![p] = Append(@, f)]
            /\ unread' = [unread EXCEPT ![p] = @ \ {[idx |-> Len(joined_up[p]), name |-> delivery[p].name]}]
<1> DEFINE L    == Len(joined_up[p])
           T    == delivery[p].total
           N(k) == [idx |-> k, name |-> delivery[p].name]
<1>0. p \in Posts /\ T \in Nat /\ L \in Nat
  BY DeliveredType DEF UploadTypeOK
<1>1. step[p] = "reading"
  BY DEF ReadChunk
<1>2. \A n : n \in unread[p] <=> \E k \in L .. T - 1 : n = N(k)
  BY <1>1 DEF Ordered, OrderedOf
<1>3. PICK n \in unread[p] :
         /\ \A m \in unread[p] : n.idx <= m.idx
         /\ unread' = [unread EXCEPT ![p] = @ \ {n}]
         /\ LET here == {f \in files : Name(f) = n} IN
            IF here = {} THEN To(p, "failed")
            ELSE joined_up' = [joined_up EXCEPT ![p] = Append(@, CHOOSE f \in here : TRUE)]
  BY DEF ReadChunk
<1>4. PICK k \in L .. T - 1 : n = N(k)
  BY <1>2
<1>5. L \in L .. T - 1 /\ L < T
  BY <1>0, <1>4
<1>6. N(L) \in unread[p] /\ N(L).idx = L /\ n.idx = k
  BY <1>2, <1>4, <1>5
<1>7. k = L
  BY <1>0, <1>3, <1>4, <1>6
<1> DEFINE here == {f \in files : Name(f) = n}
<1>8. here # {}
  <2>1. ~To(p, "failed")
    <3>1. step \in [Posts -> Running \cup {"idle", "done", "failed", "dropped"}]
      BY DEF UploadTypeOK
    <3> QED BY <1>0, <1>1, <3>1 DEF To
  <2> QED BY <1>3, <2>1
<1>9. (CHOOSE f \in here : TRUE) \in here
  BY <1>8
<1>10. \A f \in here : f.idx = L
  BY <1>4, <1>7 DEF Name
<1> QED BY <1>3, <1>4, <1>5, <1>7, <1>8, <1>9, <1>10

LEMMA OrderedStep ==
  ASSUME UploadTypeOK, Order, OneName, Fitting, Ordered, NEW p \in Posted,
         \/ MakeFolder(p) \/ OpenChunk(p) \/ WriteChunk(p) \/ Stopped(p)
         \/ List(p) \/ ReadChunk(p) \/ Join(p) \/ RemoveChunk(p) \/ EndRemoval(p) \/ SendJoined(p)
  PROVE  Ordered'
<1>0. /\ p \in Posts /\ Posted' = Posted /\ delivery' = delivery
      /\ step \in [Posts -> Running \cup {"idle", "done", "failed", "dropped"}]
  BY ReaderFrom, DeliveredType DEF UploadTypeOK
<1>1. ASSUME NEW q \in Posted, q # p PROVE OrderedOf(q)'
  <2>1. /\ Reader(q)' => Reader(q)
        /\ Full(q)' => Full(q)
        /\ step'[q] = step[q] /\ joined_up'[q] = joined_up[q] /\ unread'[q] = unread[q]
    BY <1>1, ReaderFrom, Others
  <2>2. OrderedOf(q)
    BY DEF Ordered
  <2> QED BY <1>0, <2>1, <2>2 DEF OrderedOf
<1>2. ASSUME step[p] \notin {"listing", "reading"} PROVE OrderedOf(p)'
  <2>1. ~List(p) /\ ~ReadChunk(p) /\ ~Join(p)
    BY <1>2 DEF List, ReadChunk, Join
  <2>2. UNCHANGED <<joined_up, unread>>
    BY <2>1 DEF MakeFolder, OpenChunk, WriteChunk, Stopped, RemoveChunk, EndRemoval, SendJoined
  <2>3. /\ Reader(p)' => Reader(p)
        /\ Full(p)' => Full(p)
        /\ step'[p] = "reading" => step[p] = "reading"
    BY <2>1, ReaderFrom
  <2>4. OrderedOf(p)
    BY DEF Ordered
  <2> QED BY <1>0, <2>2, <2>3, <2>4 DEF OrderedOf
<1>3. ASSUME List(p) PROVE OrderedOf(p)'
  <2>1. step[p] = "listing" /\ joined_up' = joined_up /\ joined_up[p] = << >> /\ Len(joined_up[p]) = 0
    BY <1>0, <1>3 DEF List, Order
  <2>2. ~Full(p)'
    BY <1>0, <1>3, <2>1 DEF List, To, Full, Joined, Order
  <2>3. step'[p] = "reading" => Present(p) /\ unread'[p] = {Name(f) : f \in files}
    BY <1>0, <1>3 DEF List, To, UploadTypeOK
  <2>4. step'[p] = "reading" =>
           \A n : n \in unread'[p] <=>
              \E k \in 0 .. delivery[p].total - 1 : n = [idx |-> k, name |-> delivery[p].name]
    BY <2>3, AllThere
  <2>5. 0 <= delivery[p].total
    BY DeliveredType
  <2> QED BY <1>0, <2>1, <2>2, <2>4, <2>5 DEF OrderedOf
<1>4. ASSUME ReadChunk(p) PROVE OrderedOf(p)'
  <2>1. step[p] = "reading" /\ sent' = sent
    BY <1>4 DEF ReadChunk
  <2>2. CASE step' = step
    <3>1. PICK f \in files :
             /\ f.idx = Len(joined_up[p]) /\ Len(joined_up[p]) < delivery[p].total
             /\ joined_up' = [joined_up EXCEPT ![p] = Append(@, f)]
             /\ unread' = [unread EXCEPT ![p] = @ \ {[idx |-> Len(joined_up[p]), name |-> delivery[p].name]}]
      BY <1>4, <2>2, ReadInOrder
    <3> DEFINE L    == Len(joined_up[p])
               T    == delivery[p].total
               N(k) == [idx |-> k, name |-> delivery[p].name]
    <3>2. /\ joined_up[p] \in Seq(Chunk) /\ L \in Nat /\ T \in Nat
          /\ joined_up'[p] = Append(joined_up[p], f)
          /\ unread'[p] = unread[p] \ {N(L)}
      BY <1>0, <3>1, DeliveredType DEF UploadTypeOK
    <3>3. /\ Len(joined_up'[p]) = L + 1
          /\ joined_up'[p][L + 1] = f
          /\ \A i \in 1 .. L : joined_up'[p][i] = joined_up[p][i]
      BY <3>2
    <3>4. /\ \A i \in 1 .. L : joined_up[p][i].idx = i - 1
          /\ \A n : n \in unread[p] <=> \E k \in L .. T - 1 : n = N(k)
      BY <2>1 DEF Ordered, OrderedOf, Reader, AtFiles
    <3>5. \A i \in 1 .. L + 1 : joined_up'[p][i].idx = i - 1
      <4> TAKE i \in 1 .. L + 1
      <4>1. CASE i = L + 1
        BY <3>1, <3>2, <3>3, <4>1
      <4>2. CASE i \in 1 .. L
        BY <3>3, <3>4, <4>2
      <4> QED BY <3>2, <4>1, <4>2
    <3>6. \A n : n \in unread'[p] <=> \E k \in L + 1 .. T - 1 : n = N(k)
      <4>1. \A k \in L .. T - 1 : N(k) = N(L) <=> k = L
        OBVIOUS
      <4>2. \A k : k \in L + 1 .. T - 1 <=> k \in L .. T - 1 /\ k # L
        BY <3>2
      <4> QED BY <3>2, <3>4, <4>1, <4>2
    <3>7. ~Full(p)'
      BY <2>1, <2>2 DEF Full, Joined, Order
    <3> QED BY <1>0, <3>1, <3>2, <3>3, <3>5, <3>6, <3>7 DEF OrderedOf
  <2>3. CASE step' # step
    <3>1. step' = [step EXCEPT ![p] = "failed"]
      BY <1>4, <2>3 DEF ReadChunk, To
    <3> QED BY <1>0, <2>1, <3>1 DEF OrderedOf, Reader, Full, Joined, Order, AtFiles
  <2> QED BY <2>2, <2>3
<1>5. ASSUME Join(p) PROVE OrderedOf(p)'
  <2>1. step[p] = "reading" /\ unread[p] = {} /\ UNCHANGED <<joined_up, unread, sent>>
    BY <1>5 DEF Join
  <2>2. OrderedOf(p) /\ Reader(p)
    BY <2>1 DEF Ordered, Reader, AtFiles
  <2>3. Len(joined_up[p]) = delivery[p].total
    <3>1. Len(joined_up[p]) \in Nat /\ delivery[p].total \in Nat
      BY <1>0, DeliveredType DEF UploadTypeOK
    <3>2. ~\E k \in Len(joined_up[p]) .. delivery[p].total - 1 : TRUE
      BY <2>1, <2>2 DEF OrderedOf
    <3>3. Len(joined_up[p]) <= delivery[p].total
      BY <2>1, <2>2 DEF OrderedOf
    <3> QED
      <4>1. Len(joined_up[p]) < delivery[p].total =>
               Len(joined_up[p]) \in Len(joined_up[p]) .. delivery[p].total - 1
        BY <3>1
      <4> QED BY <3>1, <3>2, <3>3, <4>1
  <2>4. step'[p] # "reading"
    BY <1>0, <1>5 DEF Join, To
  <2> QED BY <1>0, <2>1, <2>2, <2>3, <2>4 DEF OrderedOf
<1>6. OrderedOf(p)'
  <2>1. step[p] = "listing" => List(p)
    BY DEF MakeFolder, OpenChunk, WriteChunk, Stopped, ReadChunk, Join, RemoveChunk, EndRemoval, SendJoined
  <2>2. step[p] = "reading" => ReadChunk(p) \/ Join(p)
    BY DEF MakeFolder, OpenChunk, WriteChunk, Stopped, List, RemoveChunk, EndRemoval, SendJoined
  <2> QED BY <1>2, <1>3, <1>4, <1>5, <2>1, <2>2
<1> QED BY <1>0, <1>1, <1>6 DEF Ordered

\* A step that creates no file and renews none.
LEMMA CarefulKept ==
  ASSUME UploadTypeOK, Order, Careful, NEW p \in Posted,
         \/ MakeFolder(p) \/ OpenChunk(p) \/ WriteChunk(p) \/ Stopped(p)
         \/ List(p) \/ ReadChunk(p) \/ Join(p) \/ RemoveChunk(p) \/ EndRemoval(p) \/ SendJoined(p),
         files' \subseteq files, UNCHANGED <<cut, mine, joined_up>>,
         ~careless' => ~careless,
         step'[p] \notin {"writing", "reading"},
         ~careless' /\ step'[p] \in Running =>
            step[p] \in Running \/ \A q \in Posted \ {p} : step[q] \notin Running
  PROVE  Careful'
<1> SUFFICES ASSUME ~careless' PROVE Alone' /\ CutKnown' /\ OwnFile' /\ WholeRead'
  BY DEF Careful
<1>0. Alone /\ CutKnown /\ OwnFile /\ WholeRead
  BY DEF Careful
<1>1. Posted' = Posted /\ delivery' = delivery /\ \A q \in Posted \ {p} : step'[q] = step[q]
  BY ReaderFrom
<1>2. \A q \in Posted : Reader(q)' => Reader(q)
  <2> SUFFICES ASSUME NEW q \in Posted, Reader(q)' PROVE Reader(q)
    OBVIOUS
  <2>1. CASE q # p
    BY <2>1, ReaderFrom
  <2>2. CASE q = p /\ List(p)
    <3>1. Full(p)'
      BY <2>2 DEF Reader, Full, AtFiles
    <3>2. Full(p)' => Full(p) \/ Join(p)
      BY ReaderFrom
    <3>3. ~Join(p)
      BY <2>2 DEF List, Join
    <3> QED BY <2>2, <3>1, <3>2, <3>3 DEF Reader, Full, AtFiles
  <2>3. CASE q = p /\ ~List(p)
    BY <2>3, ReaderFrom
  <2> QED BY <2>1, <2>2, <2>3
<1>3. Alone'
  BY <1>0, <1>1 DEF Alone, Running
<1>4. CutKnown'
  BY <1>0 DEF CutKnown
<1>5. OwnFile'
  BY <1>0, <1>1 DEF OwnFile
<1>6. WholeRead'
  BY <1>0, <1>1, <1>2 DEF WholeRead
<1> QED BY <1>3, <1>4, <1>5, <1>6

LEMMA CarefulStep ==
  ASSUME UploadTypeOK, Order, OneName, Fitting, Careful, NEW p \in Posted,
         \/ MakeFolder(p) \/ OpenChunk(p) \/ WriteChunk(p) \/ Stopped(p)
         \/ List(p) \/ ReadChunk(p) \/ Join(p) \/ RemoveChunk(p) \/ EndRemoval(p) \/ SendJoined(p)
  PROVE  Careful'
<1>0. /\ p \in Posts /\ Posted \subseteq Posts /\ Posted' = Posted /\ delivery' = delivery
      /\ step \in [Posts -> Running \cup {"idle", "done", "failed", "dropped"}]
      /\ \A q \in Posted \ {p} : step'[q] = step[q]
  BY ReaderFrom, DeliveredType DEF UploadTypeOK
<1>1. CASE MakeFolder(p)
  <2>1. /\ UNCHANGED <<files, cut, mine, joined_up>>
        /\ careless' = (careless \/ \E q \in Posted \ {p} : step[q] \in Running)
    BY <1>1 DEF MakeFolder
  <2>2. step'[p] \notin {"writing", "reading"}
    BY <1>0, <1>1 DEF MakeFolder, To
  <2> QED BY <1>1, <2>1, <2>2, CarefulKept
<1>2. CASE OpenChunk(p)
  <2>1. step[p] = "opening" /\ UNCHANGED <<joined_up, careless>>
    BY <1>2 DEF OpenChunk
  <2>2. CASE ~folder
    <3>1. UNCHANGED <<files, cut, mine>> /\ step'[p] = "failed"
      BY <1>0, <1>2, <2>2 DEF OpenChunk, To
    <3> QED BY <1>2, <2>1, <3>1, CarefulKept DEF Running
  <2>3. CASE folder
    <3> SUFFICES ASSUME ~careless PROVE Alone' /\ CutKnown' /\ OwnFile' /\ WholeRead'
      BY <2>1 DEF Careful
    <3> DEFINE here == {f \in files : Name(f) = Named(p)}
               new  == [idx |-> delivery[p].idx, name |-> delivery[p].name, born |-> p, whole |-> FALSE]
    <3>0. Alone /\ CutKnown /\ OwnFile /\ WholeRead
      BY DEF Careful
    <3>1. /\ files' = (files \ here) \cup
                      (IF here = {} THEN {new} ELSE {[f EXCEPT !.whole = FALSE] : f \in here})
          /\ mine'[p] = IF here = {} THEN p ELSE (CHOOSE f \in here : TRUE).born
          /\ cut' = cut \cup {delivery[p].idx}
          /\ step'[p] = "writing"
      BY <1>0, <1>2, <2>3 DEF OpenChunk, To, UploadTypeOK
    <3>2. \A f \in here : /\ f \in files
                          /\ [f EXCEPT !.whole = FALSE].idx = delivery[p].idx
                          /\ [f EXCEPT !.whole = FALSE].born = f.born
      BY DEF UploadTypeOK, Chunk, Name, Named
    <3>3. \A f, g \in here : f = g
      BY DEF UploadTypeOK
    <3>4. new.idx = delivery[p].idx /\ new.born = p
      OBVIOUS
    <3> HIDE DEF new
    <3>5. \A g \in files' : \/ g \in files /\ Name(g) # Named(p)
                            \/ here = {} /\ g = new
                            \/ \E f \in here : g = [f EXCEPT !.whole = FALSE]
      BY <3>1
    <3>6. Alone' /\ \A q \in Posted : q # p => step'[q] \notin Running
      BY <1>0, <2>1, <3>0, <3>1 DEF Alone, Running
    <3>7. CutKnown'
      <4> SUFFICES ASSUME NEW g \in files' PROVE g.whole \/ g.idx \in cut'
        BY DEF CutKnown
      <4>1. CASE g \in files
        BY <3>0, <3>1, <4>1 DEF CutKnown
      <4>2. CASE g = new
        BY <3>1, <3>4, <4>2
      <4>3. CASE \E f \in here : g = [f EXCEPT !.whole = FALSE]
        BY <3>1, <3>2, <4>3
      <4> QED BY <3>5, <4>1, <4>2, <4>3
    <3>8. ASSUME NEW g \in files', g.idx = delivery[p].idx PROVE g.born = mine'[p]
      <4>1. CASE g \in files /\ Name(g) # Named(p)
        BY <3>8, <4>1 DEF Fitting, Name, Named
      <4>2. CASE here = {} /\ g = new
        BY <3>1, <3>4, <4>2
      <4>3. CASE \E f \in here : g = [f EXCEPT !.whole = FALSE]
        <5>1. PICK f \in here : g = [f EXCEPT !.whole = FALSE]
          BY <4>3
        <5>2. (CHOOSE x \in here : TRUE) = f
          <6>1. (CHOOSE x \in here : TRUE) \in here
            BY <5>1
          <6> QED BY <3>3, <5>1, <6>1
        <5> QED BY <3>1, <3>2, <5>1, <5>2
      <4> QED BY <3>5, <3>8, <4>1, <4>2, <4>3
    <3>9. OwnFile'
      BY <1>0, <3>6, <3>8 DEF OwnFile, Running
    <3>10. WholeRead'
      <4>1. \A q \in Posted : Reader(q)' => Reader(q)
        <5>1. ~List(p)
          BY <2>1 DEF List
        <5> QED BY <5>1, ReaderFrom
      <4>2. \A q \in Posted : step'[q] # "reading"
        BY <3>1, <3>6 DEF Running
      <4> QED BY <1>0, <2>1, <3>0, <4>1, <4>2 DEF WholeRead
    <3> QED BY <3>6, <3>7, <3>9, <3>10
  <2> QED BY <2>2, <2>3
<1>3. CASE WriteChunk(p)
  <2>1. step[p] = "writing" /\ UNCHANGED <<mine, joined_up, careless>>
    BY <1>3 DEF WriteChunk
  <2>2. CASE step'[p] = "failed" /\ UNCHANGED <<files, cut>>
    BY <1>3, <2>1, <2>2, CarefulKept DEF Running
  <2>3. CASE /\ files' = {IF f.born = mine[p] THEN [f EXCEPT !.whole = TRUE] ELSE f : f \in files}
             /\ cut' = cut \ {delivery[p].idx}
             /\ step'[p] \in {"stopping", "done"}
    <3> SUFFICES ASSUME ~careless PROVE Alone' /\ CutKnown' /\ OwnFile' /\ WholeRead'
      BY <2>1 DEF Careful
    <3>0. Alone /\ CutKnown /\ OwnFile /\ WholeRead
      BY DEF Careful
    <3>1. \A f \in files : [f EXCEPT !.whole = TRUE].whole /\ [f EXCEPT !.whole = TRUE].idx = f.idx
      BY DEF UploadTypeOK, Chunk
    <3>2. Alone' /\ \A q \in Posted : q # p => step'[q] \notin Running
      BY <1>0, <2>1, <3>0 DEF Alone, Running
    <3>3. CutKnown'
      <4> SUFFICES ASSUME NEW g \in files' PROVE g.whole \/ g.idx \in cut'
        BY DEF CutKnown
      <4>1. PICK f \in files : g = IF f.born = mine[p] THEN [f EXCEPT !.whole = TRUE] ELSE f
        BY <2>3
      <4>2. CASE f.born = mine[p]
        BY <3>1, <4>1, <4>2
      <4>3. CASE f.born # mine[p]
        <5>1. f.idx # delivery[p].idx
          BY <2>1, <3>0, <4>3 DEF OwnFile
        <5> QED BY <2>3, <3>0, <4>1, <4>3, <5>1 DEF CutKnown
      <4> QED BY <4>2, <4>3
    <3>4. \A q \in Posted : step'[q] \notin {"writing", "reading"}
      BY <2>3, <3>2 DEF Running
    <3>5. OwnFile'
      BY <1>0, <3>4 DEF OwnFile
    <3>6. WholeRead'
      <4>1. \A q \in Posted : Reader(q)' => Reader(q)
        <5>1. ~List(p)
          BY <2>1 DEF List
        <5> QED BY <5>1, ReaderFrom
      <4> QED BY <1>0, <2>1, <3>0, <3>4, <4>1 DEF WholeRead
    <3> QED BY <3>2, <3>3, <3>5, <3>6
  <2> QED BY <1>0, <1>3, <2>2, <2>3 DEF WriteChunk, To
<1>4. CASE Stopped(p)
  <2>1. step[p] = "stopping" /\ UNCHANGED <<files, cut, mine, joined_up, careless>>
    BY <1>4 DEF Stopped
  <2>2. step'[p] \in {"listing", "dropped"}
    BY <1>0, <1>4 DEF Stopped, To
  <2> QED BY <1>4, <2>1, <2>2, CarefulKept DEF Running
<1>5. CASE List(p)
  <2>1. step[p] = "listing" /\ UNCHANGED <<files, cut, mine, joined_up>> /\ careless' = (careless \/ cut # {})
    BY <1>5 DEF List
  <2>2. CASE step'[p] = "failed"
    BY <1>5, <2>1, <2>2, CarefulKept DEF Running
  <2>3. CASE step'[p] = "reading"
    <3> SUFFICES ASSUME ~careless, cut = {} PROVE Alone' /\ CutKnown' /\ OwnFile' /\ WholeRead'
      BY <2>1 DEF Careful
    <3>0. Alone /\ CutKnown /\ OwnFile /\ WholeRead
      BY DEF Careful
    <3>1. \A f \in files : f.whole
      BY <3>0 DEF CutKnown
    <3>2. Alone'
      BY <1>0, <2>1, <2>3, <3>0 DEF Alone, Running
    <3>3. CutKnown' /\ OwnFile'
      BY <1>0, <2>1, <2>3, <3>0 DEF CutKnown, OwnFile
    <3>4. WholeRead'
      <4>1. joined_up[p] = << >>
        BY <1>0, <2>1 DEF Order
      <4>2. ASSUME NEW q \in Posted, q # p, Reader(q)' PROVE Reader(q)
        BY <4>2, ReaderFrom
      <4> QED BY <1>0, <2>1, <3>0, <3>1, <4>1, <4>2 DEF WholeRead
    <3> QED BY <3>2, <3>3, <3>4
  <2> QED BY <1>0, <1>5, <2>2, <2>3 DEF List, To
<1>6. CASE ReadChunk(p)
  <2>1. step[p] = "reading" /\ UNCHANGED <<files, cut, mine, sent, careless>>
    BY <1>6 DEF ReadChunk
  <2>2. CASE step' # step
    <3>1. step' = [step EXCEPT ![p] = "failed"] /\ joined_up' = joined_up
      BY <1>6, <2>2 DEF ReadChunk, To
    <3> QED BY <1>0, <1>6, <2>1, <3>1, CarefulKept DEF Running
  <2>3. CASE step' = step
    <3>1. PICK f \in files : joined_up' = [joined_up EXCEPT ![p] = Append(@, f)]
      BY <1>0, <1>6, <2>1, <2>3 DEF ReadChunk, To
    <3> SUFFICES ASSUME ~careless PROVE Alone' /\ CutKnown' /\ OwnFile' /\ WholeRead'
      BY <2>1 DEF Careful
    <3>0. Alone /\ CutKnown /\ OwnFile /\ WholeRead
      BY DEF Careful
    <3>2. Alone' /\ CutKnown' /\ OwnFile'
      BY <1>0, <2>1, <2>3, <3>0 DEF Alone, CutKnown, OwnFile
    <3>3. /\ joined_up[p] \in Seq(Chunk) /\ joined_up'[p] = Append(joined_up[p], f)
          /\ \A q \in Posted \ {p} : joined_up'[q] = joined_up[q]
      BY <1>0, <3>1 DEF UploadTypeOK
    <3>4. /\ Len(joined_up'[p]) = Len(joined_up[p]) + 1 /\ Len(joined_up[p]) \in Nat
          /\ joined_up'[p][Len(joined_up[p]) + 1] = f
          /\ \A i \in 1 .. Len(joined_up[p]) : joined_up'[p][i] = joined_up[p][i]
      BY <3>3
    <3>5. f.whole /\ \A i \in 1 .. Len(joined_up[p]) : joined_up[p][i].whole
      BY <2>1, <3>0 DEF WholeRead, Reader, AtFiles
    <3>6. \A i \in 1 .. Len(joined_up'[p]) : joined_up'[p][i].whole
      <4> TAKE i \in 1 .. Len(joined_up'[p])
      <4>1. CASE i = Len(joined_up[p]) + 1
        BY <3>4, <3>5, <4>1
      <4>2. CASE i \in 1 .. Len(joined_up[p])
        BY <3>4, <3>5, <4>2
      <4> QED BY <3>4, <4>1, <4>2
    <3>7. \A q \in Posted : Reader(q)' => Reader(q)
      BY <2>1, <2>3 DEF Reader, Joined
    <3>8. WholeRead'
      BY <1>0, <2>1, <2>3, <3>0, <3>3, <3>6, <3>7 DEF WholeRead
    <3> QED BY <3>2, <3>8
  <2> QED BY <2>2, <2>3
<1>7. CASE Join(p)
  <2>1. step[p] = "reading" /\ UNCHANGED <<files, cut, mine, joined_up, careless>>
    BY <1>7 DEF Join
  <2>2. step'[p] \in {"removing", "failed"}
    BY <1>0, <1>7 DEF Join, To
  <2> QED BY <1>7, <2>1, <2>2, CarefulKept DEF Running
<1>8. CASE SendJoined(p)
  <2>1. step[p] = "sending" /\ UNCHANGED <<files, cut, mine, joined_up, careless>>
    BY <1>8 DEF SendJoined
  <2>2. step'[p] \in {"done", "failed", "dropped"}
    BY <1>0, <1>8 DEF SendJoined, To
  <2> QED BY <1>8, <2>1, <2>2, CarefulKept DEF Running
<1>9. CASE RemoveChunk(p)
  <2>1. step[p] = "removing" /\ step' = step /\ files' \subseteq files /\ UNCHANGED <<cut, mine, joined_up, careless>>
    BY <1>9 DEF RemoveChunk
  <2> QED BY <1>9, <2>1, CarefulKept DEF Running
<1>10. CASE EndRemoval(p)
  <2>1. step[p] = "removing" /\ UNCHANGED <<files, cut, mine, joined_up, careless>>
    BY <1>10 DEF EndRemoval
  <2>2. step'[p] = "sending"
    BY <1>0, <1>10 DEF EndRemoval, To
  <2> QED BY <1>10, <2>1, <2>2, CarefulKept DEF Running
<1> QED BY <1>1, <1>2, <1>3, <1>4, <1>5, <1>6, <1>7, <1>8, <1>9, <1>10

LEMMA FullStep == UploadTypeOK /\ ChunkInv /\ FullInv /\ [UploadStep]_uploadVars => FullInv'
<1> SUFFICES ASSUME UploadTypeOK, ChunkInv, FullInv, [UploadStep]_uploadVars, OneName'
             PROVE  Fitting' /\ Ordered' /\ Careful'
  BY DEF FullInv
<1>1. CASE UNCHANGED uploadVars
  <2>1. UNCHANGED <<delivery, step, files, mine, unread, joined_up, sent, cut, careless>>
    BY <1>1 DEF uploadVars
  <2>2. OneName
    BY <2>1 DEF OneName, Posted
  <2>3. \A q : Full(q)' = Full(q) /\ Reader(q)' = Reader(q)
    BY <2>1 DEF Joined, Reader, Full
  <2>4. Fitting /\ Ordered /\ Careful
    BY <2>2 DEF FullInv
  <2>5. Fitting'
    BY <2>1, <2>4 DEF Fitting, Posted
  <2>6. Ordered'
    BY <2>1, <2>3, <2>4 DEF Ordered, OrderedOf, Posted
  <2>7. Careful'
    BY <2>1, <2>3, <2>4 DEF Careful, Alone, CutKnown, OwnFile, WholeRead, Posted
  <2> QED BY <2>5, <2>6, <2>7
<1>2. CASE UploadStep
  <2>1. PICK p \in Posted :
           \/ MakeFolder(p) \/ OpenChunk(p) \/ WriteChunk(p) \/ Stopped(p)
           \/ List(p) \/ ReadChunk(p) \/ Join(p) \/ RemoveChunk(p) \/ EndRemoval(p) \/ SendJoined(p)
    BY <1>2 DEF UploadStep
  <2>2. Order
    BY DEF ChunkInv
  <2>3. Posted' = Posted /\ delivery' = delivery
    BY <2>1, <2>2, ReaderFrom
  <2>4. OneName
    BY <2>3 DEF OneName
  <2>5. Fitting /\ Ordered /\ Careful
    BY <2>4 DEF FullInv
  <2> QED BY <2>1, <2>2, <2>4, <2>5, FittingStep, OrderedStep, CarefulStep
<1> QED BY <1>1, <1>2

LEMMA FullSent == UploadTypeOK /\ FullInv => SentInFull
<1> SUFFICES ASSUME UploadTypeOK, FullInv, OneName, NEW p \in sent
             PROVE  /\ Len(joined_up[p]) = delivery[p].total
                    /\ \A i \in 1 .. Len(joined_up[p]) :
                          joined_up[p][i].idx = i - 1 /\ (careless \/ joined_up[p][i].whole)
  BY DEF SentInFull
<1>1. p \in Posted /\ Full(p) /\ Reader(p)
  BY DEF UploadTypeOK, Joined, Reader, Full
<1>2. OrderedOf(p) /\ Careful
  BY <1>1 DEF FullInv, Ordered
<1>3. careless \/ \A i \in 1 .. Len(joined_up[p]) : joined_up[p][i].whole
  BY <1>1, <1>2 DEF Careful, WholeRead
<1> QED BY <1>1, <1>2, <1>3 DEF OrderedOf

\* An attachment that is sent has every chunk, once and in order, whatever failed or ran
\* beside it, and in full for a careful client: for any number of chunks and POSTs.
THEOREM SentWhole == UploadSpec => []SentInFull
<1>1. UploadInit => UploadTypeOK /\ ChunkInv /\ FullInv
  BY UploadTyping, ChunkInit, FullInit
<1>2. UploadTypeOK /\ ChunkInv /\ FullInv /\ [UploadStep]_uploadVars => (UploadTypeOK /\ ChunkInv /\ FullInv)'
  BY UploadTypeStep, ChunkStep, FullStep
<1> QED BY <1>1, <1>2, FullSent, PTL DEF UploadSpec
=============================================================================
