----------------------------- MODULE EventFeed -----------------------------
(***************************************************************************)
(* What the pipeline from the traced system calls to the log API promises: *)
(* a best-effort feed.  Events are numbered in the order in which they are *)
(* issued.  An issued event is pending, and ends in one of two ways: it is *)
(* delivered or it is lost.  Nothing says that a pending event ends at     *)
(* all.  Two things are promised: an event is delivered at most once, and  *)
(* never after an event that was issued later.                             *)
(*                                                                         *)
(* KernelHooks implements this feed up to the callback of the agent, and   *)
(* MonitoringAgent implements it up to the server.                         *)
(***************************************************************************)
EXTENDS Naturals

VARIABLES issued,     \* the number of events issued so far
          pending,    \* events somewhere between the system call and the end
          delivered,  \* events that reached the end of the feed
          lost        \* events that never will

feedVars == <<issued, pending, delivered, lost>>

Init == /\ issued = 0
        /\ pending = {}
        /\ delivered = {}
        /\ lost = {}

(* A new event, with the next number; there may be no room for it. *)
Issue == /\ issued' = issued + 1
         /\ \/ pending' = pending \cup {issued'} /\ lost' = lost
            \/ pending' = pending /\ lost' = lost \cup {issued'}
         /\ delivered' = delivered

(* S comes after everything that was delivered before. *)
InOrder(S) == \A d \in delivered, s \in S : d < s

Deliver(S) == /\ S # {}
              /\ InOrder(S)
              /\ pending' = pending \ S
              /\ delivered' = delivered \cup S
              /\ UNCHANGED <<issued, lost>>

Lose(S) == /\ S # {}
           /\ pending' = pending \ S
           /\ lost' = lost \cup S
           /\ UNCHANGED <<issued, delivered>>

(* A batch whose fate is decided together with that of other events: some
   arrive and the rest go missing. *)
DeliverAndLose(S, L) == /\ S # {} /\ L # {} /\ S \cap L = {}
                        /\ InOrder(S)
                        /\ pending' = pending \ (S \cup L)
                        /\ delivered' = delivered \cup S
                        /\ lost' = lost \cup L
                        /\ issued' = issued

Next == \/ Issue
        \/ \E S \in SUBSET pending : Deliver(S) \/ Lose(S)
        \/ \E S, L \in SUBSET pending : DeliverAndLose(S, L)

Spec == Init /\ [][Next]_feedVars
=============================================================================
