---------------------------- MODULE ChunkUpload -----------------------------
(***************************************************************************)
(* send_attachment_chunk: an attachment comes in parts, each a POST of its *)
(* own, kept as files of one directory until the POST that says it is the  *)
(* last counts, reads, joins and sends them.  Nothing but the directory    *)
(* joins the POSTs: they run side by side, between any two calls of the    *)
(* file system, and a client may repeat each of them.                      *)
(*                                                                         *)
(* One attachmentGuid, hence one directory.  A file is known by the POST   *)
(* that created it (born); a write in progress, and one that failed, leave *)
(* it cut.                                                                 *)
(***************************************************************************)
EXTENDS Naturals, Sequences, FiniteSets

CONSTANTS
    Posts,      \* the POSTs of a behaviour
    Names,      \* of files
    Deliveries  \* functions from some Posts to what they carry

ASSUME DeliveryAssumption ==
    \A d \in Deliveries :
        /\ DOMAIN d \subseteq Posts
        /\ \A p \in DOMAIN d : d[p] \in [idx : Nat, name : Names, total : Nat, final : BOOLEAN]

VARIABLES
    delivery,  \* what the POSTs of this behaviour carry; never changes
    step,      \* step[p]: how far the handler is
    folder,    \* whether the directory is there
    files,     \* the chunks in it: [idx, name, born, whole]
    mine,      \* mine[p]: born, of the file p has open
    unread,    \* unread[p]: the names of the files p has listed and still to read
    joined_up, \* joined_up[p]: what p has read so far
    sent,      \* the POSTs whose attachment Messages accepted
    met,       \* history: {p, q}, one listed the directory while the other read or removed it
    spared,    \* history: <<p, b>>, the removal of p failed and left the chunk born b, which it joined
    cut,       \* history: indices whose last write is not over or failed
    careless   \* history: POSTs ran side by side, or the last one ran though another had failed

uploadVars == <<delivery, step, folder, files, mine, unread, joined_up, sent, met, spared, cut, careless>>

Chunk   == [idx : Nat, name : Names, born : Posts, whole : BOOLEAN]
Posted  == DOMAIN delivery
Running == {"opening", "writing", "stopping", "listing", "reading", "removing", "sending"}

Name(f) == [idx |-> f.idx, name |-> f.name]
Named(p) == [idx |-> delivery[p].idx, name |-> delivery[p].name]

\* What p read, by the POSTs that created the files.
Read(p) == {joined_up[p][i].born : i \in 1 .. Len(joined_up[p])}

-----------------------------------------------------------------------------

UploadInit ==
    /\ delivery \in Deliveries
    /\ step = [p \in Posts |-> "idle"]
    /\ folder = FALSE /\ files = {} /\ mine = [p \in Posts |-> p]
    /\ unread = [p \in Posts |-> {}] /\ joined_up = [p \in Posts |-> << >>]
    /\ sent = {} /\ met = {} /\ spared = {} /\ cut = {} /\ careless = FALSE

To(p, where) == step' = [step EXCEPT ![p] = where]

\* The fields are read and checked, and the directory is made; or the POST is refused.
MakeFolder(p) ==
    /\ step[p] = "idle"
    /\ \/ delivery[p].idx < delivery[p].total /\ To(p, "opening") /\ folder' = TRUE
       \/ To(p, "failed") /\ UNCHANGED folder
    /\ careless' = (careless \/ \E q \in Posted \ {p} : step[q] \in Running)
    /\ UNCHANGED <<delivery, files, mine, unread, joined_up, sent, met, spared, cut>>

\* fs::write opens the file, which cuts one that is there.  The directory may be gone.
OpenChunk(p) ==
    /\ step[p] = "opening"
    /\ IF ~folder
       THEN To(p, "failed") /\ UNCHANGED <<files, mine, cut>>
       ELSE LET here == {f \in files : Name(f) = Named(p)}
                new  == [idx |-> delivery[p].idx, name |-> delivery[p].name, born |-> p, whole |-> FALSE]
            IN /\ To(p, "writing")
               /\ files' = (files \ here) \cup
                           (IF here = {} THEN {new} ELSE {[f EXCEPT !.whole = FALSE] : f \in here})
               /\ mine' = [mine EXCEPT ![p] = IF here = {} THEN p ELSE (CHOOSE f \in here : TRUE).born]
               /\ cut' = cut \cup {delivery[p].idx}
    /\ UNCHANGED <<delivery, folder, unread, joined_up, sent, met, spared, careless>>

\* The bytes are in the file, or in one that has no name any more; or the disk is full.
WriteChunk(p) ==
    /\ step[p] = "writing"
    /\ \/ /\ files' = {IF f.born = mine[p] THEN [f EXCEPT !.whole = TRUE] ELSE f : f \in files}
          /\ cut' = cut \ {delivery[p].idx}
          /\ To(p, IF delivery[p].final THEN "stopping" ELSE "done")
       \/ To(p, "failed") /\ UNCHANGED <<files, cut>>
    /\ UNCHANGED <<delivery, folder, mine, unread, joined_up, sent, met, spared, careless>>

\* The typing indicator of the chat is stopped, as ActionRoutes has it; here it is an
\* await, at which the handler may be dropped.
Stopped(p) ==
    /\ step[p] = "stopping"
    /\ To(p, "listing") \/ To(p, "dropped")
    /\ UNCHANGED <<delivery, folder, files, mine, unread, joined_up, sent, met, spared, cut, careless>>

\* Mutant: the last chunk is taken for a sign that the others are there.
PresentLast(p) == \E f \in files : f.idx = delivery[p].total - 1

\* The count of the files, whatever their indices.
Present(p) == Cardinality(files) = delivery[p].total

List(p) ==
    /\ step[p] = "listing"
    /\ IF folder /\ Present(p)
       THEN /\ To(p, "reading")
            /\ unread' = [unread EXCEPT ![p] = {Name(f) : f \in files}]
            /\ met' = met \cup {{p, q} : q \in {q \in Posted : step[q] \in {"reading", "removing"}}}
       ELSE To(p, "failed") /\ UNCHANGED <<unread, met>>
    /\ careless' = (careless \/ cut # {})
    /\ UNCHANGED <<delivery, folder, files, mine, joined_up, sent, spared, cut>>

\* One file after the other by index, those of one index in any order.  A file that is
\* gone ends the handler.
ReadChunk(p) ==
    /\ step[p] = "reading"
    /\ \E n \in unread[p] :
          /\ \A m \in unread[p] : n.idx <= m.idx
          /\ unread' = [unread EXCEPT ![p] = @ \ {n}]
          /\ LET here == {f \in files : Name(f) = n} IN
             IF here = {} THEN To(p, "failed") /\ UNCHANGED joined_up
             ELSE /\ joined_up' = [joined_up EXCEPT ![p] = Append(@, CHOOSE f \in here : TRUE)]
                  /\ UNCHANGED step
    /\ UNCHANGED <<delivery, folder, files, mine, sent, met, spared, cut, careless>>

\* Mutant: the chunks are kept until they are known to be sent.
JoinUnremoved(p) ==
    /\ step[p] = "reading" /\ unread[p] = {}
    /\ To(p, "sending") \/ To(p, "failed")
    /\ UNCHANGED <<delivery, folder, files, mine, unread, joined_up, sent, met, spared, cut, careless>>

\* The joined file is written to a directory of its own; or it is empty, or cannot be
\* written.
Join(p) ==
    /\ step[p] = "reading" /\ unread[p] = {}
    /\ To(p, "removing") \/ To(p, "failed")
    /\ UNCHANGED <<delivery, folder, files, mine, unread, joined_up, sent, met, spared, cut, careless>>

\* remove_dir_all takes one file after the other, the ones that come meanwhile too,
RemoveChunk(p) ==
    /\ step[p] = "removing"
    /\ \E f \in files : files' = files \ {f}
    /\ UNCHANGED <<delivery, step, folder, mine, unread, joined_up, sent, met, spared, cut, careless>>

\* and then the directory; or it fails at any of them, which is ignored.
EndRemoval(p) ==
    /\ step[p] = "removing"
    /\ To(p, "sending")
    /\ (folder' = FALSE /\ files = {}) \/ UNCHANGED folder
    /\ spared' = spared \cup {<<p, b>> : b \in {f.born : f \in files} \cap Read(p)}
    /\ UNCHANGED <<delivery, files, mine, unread, joined_up, sent, met, cut, careless>>

\* The send, as MessageRoutes has it, without its send cache: Messages accepts it or
\* not, and the handler ends well, fails or is dropped.
SendJoined(p) ==
    /\ step[p] = "sending"
    /\ \/ To(p, "done") /\ sent' = sent \cup {p}
       \/ (To(p, "failed") \/ To(p, "dropped")) /\ sent' \in {sent, sent \cup {p}}
    /\ UNCHANGED <<delivery, folder, files, mine, unread, joined_up, met, spared, cut, careless>>

UploadStep ==
    \E p \in Posted :
        \/ MakeFolder(p) \/ OpenChunk(p) \/ WriteChunk(p) \/ Stopped(p)
        \/ List(p) \/ ReadChunk(p) \/ Join(p) \/ RemoveChunk(p) \/ EndRemoval(p)
        \/ SendJoined(p)

UploadSpec == UploadInit /\ [][UploadStep]_uploadVars

-----------------------------------------------------------------------------
(* Properties.                                                             *)

UploadTypeOK ==
    /\ delivery \in Deliveries
    /\ step \in [Posts -> Running \cup {"idle", "done", "failed", "dropped"}]
    /\ folder \in BOOLEAN /\ files \subseteq Chunk /\ (~folder => files = {})
    /\ \A f, g \in files : Name(f) = Name(g) => f = g
    /\ mine \in [Posts -> Posts] /\ sent \subseteq Posted
    /\ unread \in [Posts -> SUBSET [idx : Nat, name : Names]] /\ joined_up \in [Posts -> Seq(Chunk)]
    /\ met \subseteq SUBSET Posted /\ spared \subseteq Posted \X Posts /\ careless \in BOOLEAN

\* A client that gives all chunks one name and one total, as it should.
OneName ==
    \A p, q \in Posted : delivery[p].name = delivery[q].name /\ delivery[p].total = delivery[q].total

\* An attachment that is sent has every chunk, each once and in order, whatever failed,
\* was repeated or ran beside it; and every chunk in full, if the client waited for each
\* answer and repeated what failed.
SentInFull ==
    OneName =>
        \A p \in sent :
            /\ Len(joined_up[p]) = delivery[p].total
            /\ \A i \in 1 .. Len(joined_up[p]) :
                  joined_up[p][i].idx = i - 1 /\ (careless \/ joined_up[p][i].whole)

\* A chunk is part of one attachment sent: a last POST that is repeated when the first
\* is over sends nothing, unless all the chunks came again.  The exceptions: two POSTs
\* of which one listed the directory while the other read or removed it, and a chunk
\* that the ignored failure of a removal left behind.
ChunkSentOnce ==
    \A p, q \in sent : p # q /\ {p, q} \notin met =>
        \A b \in Read(p) \cap Read(q) : <<p, b>> \in spared \/ <<q, b>> \in spared
=============================================================================
