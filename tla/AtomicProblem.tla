---------------------------- MODULE AtomicProblem ----------------------------
(***************************************************************************)
(* What the callers of CProblema rely on: a problem whose edits take place *)
(* one at a time and entirely, each between its call and its return, and   *)
(* whose answer says whether the edit found what it looks for.             *)
(***************************************************************************)
CONSTANTS
    Editors,     \* threads that edit the problem
    Contents,    \* texts of the problem
    Start,       \* the first of them
    Requests,    \* edits
    Apply(_, _), \* text that an edit makes of a text
    Finds(_, _), \* whether it finds in the text what it looks for
    Issued(_, _) \* edits the program asks for while it has this text

NoReply == "none"
Reply(r, c) == IF Finds(r, c) THEN "ok" ELSE "not_found"

VARIABLES content, phase, request, answer

vars == <<content, phase, request, answer>>

TypeOK ==
    /\ content \in Contents
    /\ phase \in [Editors -> {"idle", "asked", "served"}]
    /\ request \in [Editors -> Requests]
    /\ answer \in [Editors -> {NoReply, "ok", "not_found"}]

Init ==
    /\ content = Start
    /\ phase = [e \in Editors |-> "idle"]
    /\ request \in [Editors -> Requests]
    /\ answer = [e \in Editors |-> NoReply]

Ask(e, r) ==
    /\ phase[e] = "idle"
    /\ Issued(r, content)
    /\ phase' = [phase EXCEPT ![e] = "asked"]
    /\ request' = [request EXCEPT ![e] = r]
    /\ UNCHANGED <<content, answer>>

Serve(e) ==
    /\ phase[e] = "asked"
    /\ content' = Apply(request[e], content)
    /\ answer' = [answer EXCEPT ![e] = Reply(request[e], content)]
    /\ phase' = [phase EXCEPT ![e] = "served"]
    /\ UNCHANGED request

Return(e) ==
    /\ phase[e] = "served"
    /\ phase' = [phase EXCEPT ![e] = "idle"]
    /\ answer' = [answer EXCEPT ![e] = NoReply]
    /\ UNCHANGED <<content, request>>

Next ==
    \E e \in Editors :
        Serve(e) \/ Return(e) \/ \E r \in Requests : Ask(e, r)

Spec ==
    /\ Init /\ [][Next]_vars
    /\ \A e \in Editors : WF_vars(Serve(e) \/ Return(e))
=============================================================================
