---------------------------- MODULE TimedActions ----------------------------
(***************************************************************************)
(* What the timer promises its callers, without processes, timeouts or     *)
(* finds: an accepted action stays pending until it was executed, was      *)
(* discarded because nobody registered its function, or somebody asked to  *)
(* cancel it; and it is never executed before its time.  Executing it more *)
(* than once is allowed: the service runs actions at least once.           *)
(***************************************************************************)
EXTENDS Naturals

CONSTANTS Actions, Ids, IdOf, ExecTimeOf

VARIABLES now, accepted, pending, ran, dropped, cancelAsked

vars == <<now, accepted, pending, ran, dropped, cancelAsked>>

Init ==
    /\ now = 0
    /\ accepted = {} /\ pending = {} /\ ran = {} /\ dropped = {}
    /\ cancelAsked = {}

Accept(a) ==
    /\ a \notin accepted
    /\ accepted' = accepted \union {a}
    /\ pending' = pending \union {a}
    /\ UNCHANGED <<now, ran, dropped, cancelAsked>>

Execute(a) ==
    /\ a \in accepted /\ now >= ExecTimeOf[a]
    /\ ran' = ran \union {a}
    /\ UNCHANGED <<now, accepted, pending, dropped, cancelAsked>>

Discard(a) ==
    /\ a \in accepted /\ now >= ExecTimeOf[a]
    /\ dropped' = dropped \union {a}
    /\ UNCHANGED <<now, accepted, pending, ran, cancelAsked>>

AskCancel(I) ==
    /\ cancelAsked' = cancelAsked \union I
    /\ UNCHANGED <<now, accepted, pending, ran, dropped>>

\* The action leaves for one of the three reasons.
Retire(a) ==
    /\ a \in pending
    /\ a \in ran \union dropped \/ IdOf[a] \in cancelAsked
    /\ pending' = pending \ {a}
    /\ UNCHANGED <<now, accepted, ran, dropped, cancelAsked>>

\* The clock may be set back, but never to before an action that was due.
Tick ==
    /\ now' \in Nat
    /\ \A a \in Actions : now >= ExecTimeOf[a] => now' >= ExecTimeOf[a]
    /\ UNCHANGED <<accepted, pending, ran, dropped, cancelAsked>>

Next ==
    \/ \E a \in Actions : \/ Accept(a) \/ Execute(a) \/ Discard(a) \/ Retire(a)
    \/ \E I \in SUBSET Ids : AskCancel(I)
    \/ Tick

Spec == Init /\ [][Next]_vars
=============================================================================
