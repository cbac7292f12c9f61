---------------------------- MODULE MCPrivateApi ----------------------------
\* Instances of PrivateApi for TLC.
EXTENDS PrivateApi, TLC

CONSTANTS send, edit, typing, key, admit, messages, findmy, facetime

\* get-findmy-key is the one action FindMy's dispatcher knows; admit-pending-member
\* is one of FaceTime's, sent from the task that watches a session.
MCTarget ==
    [c \in Calls |-> CASE c = key -> findmy [] c = admit -> facetime [] OTHER -> messages]

\* Two sends to the same app differ only by their transaction id.
MCSymmetry == Permutations({send, edit})

\* Two processes that connect in turn and one call; or two calls that want the permit
\* and the one line of room of the same socket.  Neither the first step of a call nor
\* that of a connection is fair, so what a behaviour is kept from is nothing fair.
MCCasts ==
    \/ \A c \in Calls \ {key} : pc[c] = "idle"
    \/ pc[key] = "idle" /\ \A k \in Conns : k > 1 => owner[k] = None
=============================================================================
