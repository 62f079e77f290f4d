---------------------------- MODULE RequestReply ----------------------------
(***************************************************************************)
(* What a connection promises to the two programs at its ends: the request *)
(* that is asked is served once, as it was asked, and the reply to it is   *)
(* what the call returns.                                                  *)
(***************************************************************************)
CONSTANTS
    Requests,
    Replies(_), \* the replies that a request can get
    NONE

VARIABLES
    asked,  \* the request of the call under way
    served, \* that request with the reply it was given
    result  \* of the last call

vars == <<asked, served, result>>

Init == asked = NONE /\ served = NONE /\ result = NONE

Ask ==
    /\ asked = NONE
    /\ asked' \in Requests
    /\ UNCHANGED <<served, result>>

Serve ==
    /\ asked # NONE
    /\ served = NONE
    /\ \E reply \in Replies(asked) : served' = [request |-> asked, reply |-> reply]
    /\ UNCHANGED <<asked, result>>

Return ==
    /\ served # NONE
    /\ result' = served.reply
    /\ asked' = NONE
    /\ served' = NONE

Next == Ask \/ Serve \/ Return

Spec == Init /\ [][Next]_vars
=============================================================================
