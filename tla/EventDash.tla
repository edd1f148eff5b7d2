----------------------------- MODULE EventDash ------------------------------
(***************************************************************************)
(* The event stream: EventDash.js on its page, the route /api/dbtest and   *)
(* dbtest of api.py behind it, in the frame of AppShell.                   *)
(*                                                                         *)
(* The page fetches when it is mounted and on each change of the category, *)
(* the search text or the page number, and cancels nothing: any number of  *)
(* fetches run at once and their handlers run in any order.  The request   *)
(* carries none of the three.  A handler whose page is gone sets the state *)
(* of a component that is no longer there.  dbtest answers its own         *)
(* failures with status 200 and no array, which the page shows as an empty *)
(* list; only a failure of the route or of the network is an error here.   *)
(***************************************************************************)
EXTENDS AppShell

CONSTANTS Categories, Searches,  \* "All" and "" among them
          MaxPage,               \* bound on the page number
          MaxFetches,            \* bound on the fetches
          MaxAlerts              \* bound on the changes of the table

ASSUME DashAssumption == /\ "All" \in Categories
                         /\ "" \in Searches
                         /\ MaxPage \in Nat \ {0}
                         /\ MaxFetches \in Nat /\ MaxAlerts \in Nat

VARIABLES alerts,     \* the table: 0 is empty, others tell its contents apart
          fetches,    \* the fetches that run
          started,    \* the number of fetches so far
          mount,      \* the first fetch of the page that is shown
          category, search, page, events, loading, error,
          latest,     \* history: what the last handler of this page was given
          overlapped  \* history: two fetches of this page ran at once

formVars == <<category, search, page>>
shownVars == <<events, loading, error>>
dashVars == <<alerts, fetches, started, mount, formVars, shownVars,
              latest, overlapped>>
vars == <<shellVars, dashVars>>

(* rows is what the array that is received holds, 0 if there is none. *)
Outcome == [ok : BOOLEAN, rows : 0..MaxAlerts]
NoOutcome == [ok |-> TRUE, rows |-> 0]
Fetch == [number : 1..MaxFetches, mount : 0..MaxFetches, answered : BOOLEAN,
          outcome : Outcome]

OnPage == path = EventsPath
Current == {f \in fetches : f.mount = mount}

Filter == [category |-> category, search |-> search, page |-> page]
FirstFilter == [category |-> "All", search |-> "", page |-> 1]

SetFilter(new) == /\ category' = new.category
                  /\ search' = new.search
                  /\ page' = new.page

(* fetchEvents up to the answer, while others run. *)
StartFetch(of, running) ==
    /\ started < MaxFetches
    /\ started' = started + 1
    /\ fetches' = running \cup {[number |-> started', mount |-> of,
                                 answered |-> FALSE, outcome |-> NoOutcome]}
    /\ loading' = TRUE
    /\ error' = FALSE

(* The page appears, with its initial state and the effect, or it is gone and
   its state is that of a page never filled. *)
Show(running) ==
    /\ IF path' = EventsPath
       THEN /\ mount' = started + 1
            /\ StartFetch(mount', running)
       ELSE /\ mount' = 0
            /\ fetches' = running
            /\ loading' = FALSE /\ error' = FALSE
            /\ started' = started
    /\ SetFilter(FirstFilter)
    /\ events' = 0
    /\ latest' = NoOutcome
    /\ overlapped' = FALSE
    /\ alerts' = alerts

Init == /\ ShellInit
        /\ path # EventsPath
        /\ alerts = 0 /\ fetches = {} /\ started = 0 /\ mount = 0
        /\ category = "All" /\ search = "" /\ page = 1
        /\ events = 0 /\ loading = FALSE /\ error = FALSE
        /\ latest = NoOutcome /\ overlapped = FALSE
-----------------------------------------------------------------------------
(* Within the document the fetches go on; a new document forgets them. *)
Go(p) == Navigate(p) /\ Show(fetches)
Load(p) == Reload(p) /\ Show({})

Toggle(b) == ToggleTheme(b) /\ UNCHANGED dashVars

(* The effect of a change: React runs it once for all the changes of one
   click, and not at all when nothing changed. *)
Refetch(new) ==
    /\ OnPage
    /\ new # Filter
    /\ SetFilter(new)
    /\ StartFetch(mount, fetches)
    /\ overlapped' = (overlapped \/ Current # {})
    /\ UNCHANGED <<shellVars, alerts, mount, events, latest>>

ChooseCategory(c) == Refetch([Filter EXCEPT !.category = c, !.page = 1])
TypeSearch(text) == Refetch([Filter EXCEPT !.search = text])
LoadMore == page < MaxPage /\ Refetch([Filter EXCEPT !.page = page + 1])
-----------------------------------------------------------------------------
Answer(f, outcome) ==
    /\ f \in fetches
    /\ ~f.answered
    /\ fetches' = (fetches \ {f}) \cup
                  {[f EXCEPT !.answered = TRUE, !.outcome = outcome]}
    /\ UNCHANGED <<shellVars, alerts, started, mount, formVars, shownVars,
                   latest, overlapped>>

(* Mutant: what is not an array (another number, here) is shown like one. *)
dbtest_NotArray(f) ==
    \E rows \in {alerts, MaxAlerts + 1} : Answer(f, [ok |-> TRUE, rows |-> rows])

(* dbtest reads the table, or fails and says so with status 200. *)
dbtest(f) == \E rows \in {alerts, 0} : Answer(f, [ok |-> TRUE, rows |-> rows])

(* The route answers 500, or the browser is not answered at all. *)
Fails(f) == Answer(f, [ok |-> FALSE, rows |-> 0])

(* Mutant: the catch clause, without the finally clause. *)
Handle_NoFinally(f) ==
    /\ f \in fetches /\ f.answered
    /\ fetches' = fetches \ {f}
    /\ IF f.mount = mount
       THEN /\ events' = f.outcome.rows
            /\ error' = (error \/ ~f.outcome.ok)
            /\ loading' = (loading /\ ~f.outcome.ok)
            /\ latest' = f.outcome
       ELSE UNCHANGED <<shownVars, latest>>
    /\ UNCHANGED <<shellVars, alerts, started, mount, formVars, overlapped>>

(* Mutant: the list is left alone when the fetch failed. *)
Handle_KeepsList(f) ==
    /\ f \in fetches /\ f.answered
    /\ fetches' = fetches \ {f}
    /\ IF f.mount = mount
       THEN /\ events' = IF f.outcome.ok THEN f.outcome.rows ELSE events
            /\ error' = (error \/ ~f.outcome.ok)
            /\ loading' = FALSE
            /\ latest' = f.outcome
       ELSE UNCHANGED <<shownVars, latest>>
    /\ UNCHANGED <<shellVars, alerts, started, mount, formVars, overlapped>>

(* fetchEvents from the answer on; a success does not clear the error. *)
Handle(f) ==
    /\ f \in fetches /\ f.answered
    /\ fetches' = fetches \ {f}
    /\ IF f.mount = mount
       THEN /\ events' = f.outcome.rows
            /\ error' = (error \/ ~f.outcome.ok)
            /\ loading' = FALSE
            /\ latest' = f.outcome
       ELSE UNCHANGED <<shownVars, latest>>
    /\ UNCHANGED <<shellVars, alerts, started, mount, formVars, overlapped>>

(* Whoever writes to alerts: nothing in the code that runs does. *)
WriteAlerts == /\ alerts < MaxAlerts
               /\ alerts' = alerts + 1
               /\ UNCHANGED <<shellVars, fetches, started, mount, formVars,
                              shownVars, latest, overlapped>>

Next == \/ \E p \in Paths : Go(p) \/ Load(p)
        \/ \E b \in Bars : Toggle(b)
        \/ \E c \in Categories : ChooseCategory(c)
        \/ \E text \in Searches : TypeSearch(text)
        \/ LoadMore
        \/ \E f \in fetches : dbtest(f) \/ Fails(f) \/ Handle(f)
        \/ WriteAlerts

(* The browser runs its handlers and every fetch is answered or fails. *)
Settle(n) == \E f \in fetches : /\ f.number = n
                                /\ dbtest(f) \/ Fails(f) \/ Handle(f)

Fairness == \A n \in 1..MaxFetches : WF_vars(Settle(n))

Spec == Init /\ [][Next]_vars /\ Fairness
-----------------------------------------------------------------------------
DashTypeOK == /\ ShellTypeOK
              /\ alerts \in 0..MaxAlerts
              /\ fetches \subseteq Fetch
              /\ started \in 0..MaxFetches
              /\ mount \in 0..started
              /\ Filter \in [category : Categories, search : Searches, page : 1..MaxPage]
              /\ events \in 0..MaxAlerts
              /\ loading \in BOOLEAN /\ error \in BOOLEAN /\ overlapped \in BOOLEAN
              /\ latest \in Outcome

(* The page says that it loads only while a fetch of its own runs, whatever
   pages were left meanwhile.  The other direction is lost as soon as fetches
   overlap: the first answer ends it. *)
LoadingFounded == loading => Current # {}

(* As long as its fetches came one after another, the page shows what became
   of the last one: the error if it failed, its rows if not, and that it loads
   while one runs. *)
ShowsLastAnswer ==
    OnPage /\ ~overlapped =>
       /\ loading = (Current # {})
       /\ events = latest.rows
       /\ ~loading => error = ~latest.ok

(* Loading ends, whatever is answered and whatever is clicked meanwhile. *)
LoadingEnds == loading ~> ~loading
=============================================================================
