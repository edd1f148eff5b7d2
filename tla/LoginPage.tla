----------------------------- MODULE LoginPage -----------------------------
(***************************************************************************)
(* The login page in several browsers (login/page.js), the routes of the   *)
(* frontend server behind it (api/login and api/change-credentials), and   *)
(* the account requests they make, those of module Accounts, beside those  *)
(* of clients that use the backend without a page.                         *)
(*                                                                         *)
(* A page waits for at most one request: its fields and button are         *)
(* disabled meanwhile.  The user may reload it at any time, and the        *)
(* request goes on without it; or follow a link and come back to a new     *)
(* form, and then the handler of the old form goes on as well: what it     *)
(* sets is gone, but its router.push still changes what is shown.  A route *)
(* passes an answer whose status is not in 200..299 on as an error, and    *)
(* answers everything else itself, with success.                           *)
(***************************************************************************)
EXTENDS Accounts

CONSTANTS Pages,
          ApiInputs,  \* the inputs that clients without a page send
          NetFaults   \* whether a page's request or its answer may be lost

ASSUME PagesAssumption == /\ ApiInputs \subseteq Inputs
                          /\ NetFaults \in BOOLEAN

VARIABLES shown,    \* what each page shows: a form or the dashboard
          loading,  \* isLoading
          error,    \* an error message is shown
          waiting,  \* the request whose answer the page awaits
          left,     \* requests of forms that the browser navigated away from
          came      \* history: the request that led the page to the dashboard

pageVars == <<shown, loading, error, waiting, left, came>>
vars == <<users, at, op, body, view, gone, answer, during, effect,
          shown, loading, error, waiting, left, came>>

NoRequest == 0
Fresh == [p \in Pages |-> NoRequest]

Init == /\ AccountsInit
        /\ shown = [p \in Pages |-> "login"]
        /\ loading = [p \in Pages |-> FALSE]
        /\ error = [p \in Pages |-> FALSE]
        /\ waiting = Fresh
        /\ left = [p \in Pages |-> {}]
        /\ came = Fresh
-----------------------------------------------------------------------------
Ask(p, o, b) == \E r \in Requests :
                   /\ Receive(r, o, b)
                   /\ waiting' = [waiting EXCEPT ![p] = r]

(* handleLogin and handleCredentialChange, up to the request. *)
Submit(p, form, o) ==
    /\ shown[p] = form
    /\ ~loading[p]
    /\ \E b \in {row \in Rows : <<o, row>> \notin ApiInputs} : Ask(p, o, b)
    /\ loading' = [loading EXCEPT ![p] = TRUE]
    /\ error' = [error EXCEPT ![p] = FALSE]
    /\ UNCHANGED <<shown, left, came>>

handleLogin(p) == Submit(p, "login", "login")
handleCredentialChange(p) == Submit(p, "change", "change")

(* The form is incomplete, or the passwords do not match: no request. *)
FormIncomplete(p) ==
    /\ shown[p] \in {"login", "change"}
    /\ ~loading[p]
    /\ error' = [error EXCEPT ![p] = TRUE]
    /\ UNCHANGED <<accountVars, shown, loading, waiting, left, came>>

(* The request or its answer is lost: the page's catch clause. *)
NetworkFails(p) ==
    /\ NetFaults
    /\ waiting[p] # NoRequest
    /\ loading' = [loading EXCEPT ![p] = FALSE]
    /\ error' = [error EXCEPT ![p] = TRUE]
    /\ waiting' = [waiting EXCEPT ![p] = NoRequest]
    /\ UNCHANGED <<accountVars, shown, left, came>>

(* Mutant: the route does not look at the status. *)
Ok_Always(r) == Status[answer[r]] \in 200..499

(* The route finds response.ok. *)
Ok(r) == Status[answer[r]] \in 200..299

(* The page has the answer of the route. *)
Answered(p) ==
    LET r == waiting[p]
    IN  /\ r # NoRequest
        /\ at[r] = "answered"
        /\ waiting' = [waiting EXCEPT ![p] = NoRequest]
        /\ UNCHANGED <<accountVars, left>>

(* Mutant: the page goes on loading. *)
ShowError_Loading(p) ==
    /\ Answered(p)
    /\ ~Ok(waiting[p])
    /\ error' = [error EXCEPT ![p] = TRUE]
    /\ UNCHANGED <<shown, loading, came>>

ShowError(p) ==
    /\ Answered(p)
    /\ ~Ok(waiting[p])
    /\ error' = [error EXCEPT ![p] = TRUE]
    /\ loading' = [loading EXCEPT ![p] = FALSE]
    /\ UNCHANGED <<shown, came>>

(* setShowCredentialChange(true) *)
ShowChange(p) ==
    /\ Answered(p)
    /\ answer[waiting[p]] = "must_change"
    /\ shown' = [shown EXCEPT ![p] = "change"]
    /\ loading' = [loading EXCEPT ![p] = FALSE]
    /\ UNCHANGED <<error, came>>

(* router.push('/dashboard') *)
ShowDashboard(p) ==
    /\ Answered(p)
    /\ Ok(waiting[p])
    /\ answer[waiting[p]] # "must_change"
    /\ shown' = [shown EXCEPT ![p] = "dashboard"]
    /\ came' = [came EXCEPT ![p] = waiting[p]]
    /\ UNCHANGED <<loading, error>>

(* Mutant: a page that awaits nothing is not told apart. *)
Awaited_Any(p) == {waiting[p]}

(* The requests whose answer a handler of the form awaits. *)
Awaited(p) == {waiting[p]} \ {NoRequest}

(* The answer to a form that is gone: a success still opens the dashboard. *)
LateDashboard(p) ==
    \E r \in left[p] :
       /\ at[r] = "answered"
       /\ Ok(r) /\ answer[r] # "must_change"
       /\ shown' = [shown EXCEPT ![p] = "dashboard"]
       /\ came' = [came EXCEPT ![p] = r]
       /\ left' = [left EXCEPT ![p] = (@ \cup Awaited(p)) \ {r}]
       /\ waiting' = [waiting EXCEPT ![p] = NoRequest]
       /\ UNCHANGED <<accountVars, loading, error>>

(* A new login page.  The old one's request is forgotten on a reload, and
   followed to its end on a navigation (handleLogout does no more than one). *)
NewPage(p) ==
    /\ shown' = [shown EXCEPT ![p] = "login"]
    /\ loading' = [loading EXCEPT ![p] = FALSE]
    /\ error' = [error EXCEPT ![p] = FALSE]
    /\ waiting' = [waiting EXCEPT ![p] = NoRequest]
    /\ came' = [came EXCEPT ![p] = NoRequest]
    /\ UNCHANGED accountVars

Reload(p) == NewPage(p) /\ left' = [left EXCEPT ![p] = {}]
Navigate(p) == NewPage(p) /\ left' = [left EXCEPT ![p] = @ \cup Awaited(p)]
(* register has no page, and the other routes can be asked without one. *)
ApiCall(r) == /\ \E i \in ApiInputs : Receive(r, i[1], i[2])
              /\ UNCHANGED pageVars
-----------------------------------------------------------------------------
Settle(p) == ShowError(p) \/ ShowChange(p) \/ ShowDashboard(p)

Next == \/ \E p \in Pages : \/ handleLogin(p) \/ handleCredentialChange(p)
                            \/ FormIncomplete(p) \/ NetworkFails(p)
                            \/ Settle(p) \/ LateDashboard(p)
                            \/ Reload(p) \/ Navigate(p)
        \/ \E r \in Requests : ApiCall(r)
        \/ \E r \in Requests : (Serve(r) \/ Fail(r)) /\ UNCHANGED pageVars

Spec == Init /\ [][Next]_vars

(* Threads and database serve the requests, and answers that arrive are
   handled.  Users do what they like. *)
FairSpec == /\ Spec
            /\ \A r \in Requests : WF_vars(Serve(r) /\ UNCHANGED pageVars)
            /\ \A p \in Pages : WF_vars(Settle(p))
-----------------------------------------------------------------------------
PageTypeOK == /\ AccountsTypeOK
              /\ shown \in [Pages -> {"login", "change", "dashboard"}]
              /\ loading \in [Pages -> BOOLEAN]
              /\ error \in [Pages -> BOOLEAN]
              /\ waiting \in [Pages -> Requests \cup {NoRequest}]
              /\ left \in [Pages -> SUBSET Requests]
              /\ came \in [Pages -> Requests \cup {NoRequest}]

(* A page that shows the dashboard has logged in, or has changed the
   credentials as it was told ("Credentials changed successfully"). *)
DashboardEarned == \A p \in Pages : shown[p] = "dashboard" =>
                      answer[came[p]] \in {"accepted", "changed"}

(* A login opens the dashboard only if it was accepted, for users that were in
   the table while the request was made, or if a statement of it failed: login
   answers an exception with 200, which route and page take for a success.  No
   login that was refused or told to change the credentials leads there, however
   late its answer comes and whatever became of its form. *)
LoginEarnedOrFailed ==
    \A p \in Pages :
       shown[p] = "dashboard" /\ op[came[p]] = "login" =>
          \/ DbFaults /\ answer[came[p]] = "error"
          \/ /\ answer[came[p]] = "accepted"
             /\ \E table \in during[came[p]] : Matches(table, body[came[p]])

(* isLoading comes to an end: the page shows a form again, or the dashboard. *)
LoadingEnds == \A p \in Pages :
                  loading[p] ~> (~loading[p] \/ shown[p] = "dashboard")
=============================================================================
