-------------------------- MODULE EventDash_proofs --------------------------
(***************************************************************************)
(* Proofs about the event stream and the frame around it, for any number   *)
(* of fetches and pages.                                                   *)
(*                                                                         *)
(* What holds the argument together is that a fetch knows its page: the    *)
(* mount of a page is the number of its first fetch, so that no fetch of   *)
(* an earlier page can be taken for one of this page (FetchesInv).  What   *)
(* the page shows is then a matter of the fetches of this page only, and   *)
(* as long as they did not overlap there is at most one (SoleInv).         *)
(***************************************************************************)
EXTENDS EventDash, TLAPS

FetchesInv == /\ OnPage <=> mount # 0
              /\ \A f \in fetches : /\ f.number <= started
                                    /\ 1 <= f.mount /\ f.mount <= f.number
              /\ ~OnPage => ~loading /\ ~overlapped

SoleInv == /\ ~overlapped => \A f, g \in Current : f = g
           /\ ~overlapped /\ loading => ~error

DashInv == /\ DashTypeOK
           /\ CopyWrongIffOdd
           /\ FetchesInv
           /\ SoleInv
           /\ LoadingFounded
           /\ ShowsLastAnswer
-----------------------------------------------------------------------------
(* The shell. *)

LEMMA NavigateShell ==
  ASSUME ShellTypeOK, CopyWrongIffOdd, NEW p \in Paths, Navigate(p)
  PROVE  ShellTypeOK' /\ CopyWrongIffOdd'
<1>1. "root" \in Mounted /\ \A b \in Mounted' : b = "root" \/ b = "page"
  BY DEF Mounted
<1>2. path' \in Paths /\ dark' \in BOOLEAN /\ dark' = dark
  BY DEF ShellTypeOK, Navigate
<1>3. isLoggedIn' \in [Mounted' -> BOOLEAN]
  <2>1. isLoggedIn["root"] \in BOOLEAN /\ (p \in Dashboard) \in BOOLEAN
    BY <1>1 DEF ShellTypeOK
  <2>2. \A b \in Mounted' :
           (IF b = "root" THEN isLoggedIn[b] ELSE p \in Dashboard) \in BOOLEAN
    BY <2>1, Zenon
  <2> QED
    BY <2>2, Zenon DEF Navigate
<1>4. isDark' \in [Mounted' -> BOOLEAN]
  <2>1. \A b \in Mounted' : (IF b = "root" THEN isDark[b] ELSE ThemeAtMount) \in BOOLEAN
    BY <1>1 DEF ShellTypeOK, ThemeAtMount
  <2> QED
    BY <2>1, Zenon DEF Navigate
<1>5. odd' \subseteq Mounted'
  BY DEF ShellTypeOK, Navigate, Mounted
<1>6. ASSUME NEW b \in Mounted'
      PROVE  isDark'[b] # dark' <=> b \in odd'
  <2>1. CASE b = "root"
    <3>1. isDark'[b] = isDark[b] /\ (b \in odd' <=> b \in odd)
      BY <1>6, <2>1 DEF Navigate
    <3> QED
      BY <1>1, <1>2, <2>1, <3>1, Zenon DEF CopyWrongIffOdd
  <2>2. CASE b = "page"
    <3>1. isDark'[b] = dark /\ b \notin odd'
      BY <1>6, <2>2 DEF Navigate, ThemeAtMount
    <3> QED
      BY <1>2, <3>1, Zenon
  <2> QED
    BY <1>1, <1>6, <2>1, <2>2
<1> QED
  BY <1>2, <1>3, <1>4, <1>5, <1>6, Zenon DEF ShellTypeOK, CopyWrongIffOdd

LEMMA ReloadShell ==
  ASSUME NEW p \in Paths, Reload(p)
  PROVE  ShellTypeOK' /\ CopyWrongIffOdd'
<1>1. ShellTypeOK'
  <2>1. \A b \in Mounted' : (p \in Dashboard) \in BOOLEAN /\ FALSE \in BOOLEAN
    OBVIOUS
  <2>2. /\ isLoggedIn' \in [Mounted' -> BOOLEAN]
        /\ isDark' \in [Mounted' -> BOOLEAN]
    BY <2>1, Zenon DEF Reload
  <2> QED
    BY <2>2, Zenon DEF ShellTypeOK, Reload
<1>2. CopyWrongIffOdd'
  BY Zenon DEF CopyWrongIffOdd, Reload
<1> QED
  BY <1>1, <1>2

LEMMA ToggleShell ==
  ASSUME ShellTypeOK, CopyWrongIffOdd, NEW b \in Bars, ToggleTheme(b)
  PROVE  ShellTypeOK' /\ CopyWrongIffOdd'
<1>1. Mounted' = Mounted /\ b \in Mounted
  BY DEF ToggleTheme, Mounted
<1>2. /\ path' = path /\ isLoggedIn' = isLoggedIn /\ dark' = ~dark
      /\ isDark' = [isDark EXCEPT ![b] = ~isDark[b]]
  BY Zenon DEF ToggleTheme
<1>3. isDark \in [Mounted -> BOOLEAN] /\ dark \in BOOLEAN /\ odd \subseteq Mounted
  BY DEF ShellTypeOK
<1>4. /\ isDark' \in [Mounted -> BOOLEAN]
      /\ isDark'[b] = ~isDark[b]
      /\ \A c \in Mounted \ {b} : isDark'[c] = isDark[c]
  BY <1>1, <1>2, <1>3
<1>5. /\ odd' \subseteq Mounted
      /\ \A c \in Mounted : c \in odd' <=> IF c = b THEN c \in odd ELSE c \notin odd
  BY <1>3, Zenon DEF ToggleTheme
<1>6. ShellTypeOK'
  BY <1>1, <1>2, <1>4, <1>5, Zenon DEF ShellTypeOK
<1>7. ASSUME NEW c \in Mounted
      PROVE  isDark'[c] # dark' <=> c \in odd'
  <2>1. isDark[c] # dark <=> c \in odd
    BY <1>7 DEF CopyWrongIffOdd
  <2>2. isDark[c] \in BOOLEAN
    BY <1>3
  <2>3. CASE c = b
    <3>1. isDark'[c] = ~isDark[c] /\ dark' = ~dark /\ (c \in odd' <=> c \in odd)
      BY <1>2, <1>4, <1>5, <2>3
    <3> QED
      BY <1>3, <2>1, <2>2, <3>1
  <2>4. CASE c # b
    <3>1. isDark'[c] = isDark[c] /\ dark' = ~dark /\ (c \in odd' <=> c \notin odd)
      BY <1>2, <1>4, <1>5, <2>4
    <3> QED
      BY <1>3, <2>1, <2>2, <3>1
  <2> QED
    BY <2>3, <2>4
<1> QED
  BY <1>1, <1>6, <1>7, Zenon DEF CopyWrongIffOdd
-----------------------------------------------------------------------------
(* The event stream. *)

LEMMA Constants == /\ MaxFetches \in Nat /\ MaxAlerts \in Nat /\ MaxPage \in Nat \ {0}
                   /\ NoOutcome \in Outcome /\ 0 \in 0..MaxAlerts
                   /\ FirstFilter \in [category : Categories, search : Searches,
                                       page : 1..MaxPage]
<1>1. MaxFetches \in Nat /\ MaxAlerts \in Nat /\ MaxPage \in Nat \ {0}
  BY DashAssumption
<1>2. "All" \in Categories /\ "" \in Searches
  BY DashAssumption
<1>3. 1 \in 1..MaxPage
  BY <1>1
<1>4. 0 \in 0..MaxAlerts
  BY <1>1
<1>5. FirstFilter \in [category : Categories, search : Searches, page : 1..MaxPage]
  BY <1>2, <1>3 DEF FirstFilter
<1>6. NoOutcome \in Outcome
  BY <1>4 DEF NoOutcome, Outcome
<1> QED
  BY <1>1, <1>4, <1>5, <1>6

LEMMA MaxPageNat == MaxPage \in Nat \ {0}
  BY Constants

LEMMA NewFetch ==
  ASSUME NEW running \in SUBSET Fetch, NEW of \in 0..MaxFetches, started \in 0..MaxFetches,
         StartFetch(of, running)
  PROVE  /\ started' = started + 1 /\ started' \in 1..MaxFetches
         /\ fetches' \subseteq Fetch
         /\ \E g \in Fetch : /\ g.number = started' /\ g.mount = of
                             /\ fetches' = running \cup {g}
         /\ loading' = TRUE /\ error' = FALSE
<1> DEFINE g == [number |-> started', mount |-> of, answered |-> FALSE, outcome |-> NoOutcome]
<1>1. started' = started + 1 /\ started' \in 1..MaxFetches
  BY Constants DEF StartFetch
<1>2. g \in Fetch /\ g.number = started' /\ g.mount = of
  BY <1>1, Constants DEF Fetch
<1>3. fetches' = running \cup {g} /\ loading' = TRUE /\ error' = FALSE
  BY DEF StartFetch
<1> QED
  BY <1>1, <1>2, <1>3

(* A page, or none, appears while fetches of earlier pages run. *)
LEMMA ShowInv ==
  ASSUME DashInv, NEW running \in SUBSET fetches, Show(running),
         ShellTypeOK', CopyWrongIffOdd'
  PROVE  DashInv'
<1>1. /\ alerts' \in 0..MaxAlerts /\ Filter' = FirstFilter /\ events' = 0
      /\ latest' = NoOutcome /\ overlapped' = FALSE
  BY DEF DashInv, DashTypeOK, Show, SetFilter, Filter, FirstFilter
<1>2. /\ running \subseteq Fetch /\ started \in 0..MaxFetches
      /\ \A f \in running : /\ f.number <= started
                            /\ 1 <= f.mount /\ f.mount <= f.number
  BY DEF DashInv, DashTypeOK, FetchesInv
<1>3. CASE path' = EventsPath
  <2>1. mount' = started + 1 /\ StartFetch(mount', running)
    BY <1>3 DEF Show
  <2>2. started < MaxFetches
    BY <2>1 DEF StartFetch
  <2>3. mount' \in 0..MaxFetches
    BY <1>2, <2>1, <2>2, Constants
  <2>4. /\ started' = started + 1 /\ started' \in 1..MaxFetches
        /\ fetches' \subseteq Fetch
        /\ loading' = TRUE /\ error' = FALSE
    BY <1>2, <2>1, <2>3, NewFetch
  <2>5. PICK g \in Fetch : /\ g.number = started' /\ g.mount = mount'
                           /\ fetches' = running \cup {g}
    BY <1>2, <2>1, <2>3, NewFetch
  <2>6. \A f \in running : f.number \in Nat /\ f.mount \in Nat /\ f.mount < mount'
    <3>1. \A f \in running : f.number \in Nat /\ f.mount \in Nat
      BY <1>2 DEF Fetch
    <3> QED
      BY <1>2, <2>1, <3>1
  <2>7. Current' = {g}
    BY <2>5, <2>6 DEF Current
  <2>8. DashTypeOK'
    <3>1. started' \in 0..MaxFetches /\ mount' \in 0..started'
      BY <1>2, <2>1, <2>4, Constants
    <3>2. /\ Filter' \in [category : Categories, search : Searches, page : 1..MaxPage]
          /\ events' \in 0..MaxAlerts /\ latest' \in Outcome
      BY <1>1, Constants, Zenon
    <3>3. loading' \in BOOLEAN /\ error' \in BOOLEAN /\ overlapped' \in BOOLEAN
      BY <1>1, <2>4
    <3> QED
      BY <1>1, <2>4, <3>1, <3>2, <3>3, Zenon DEF DashTypeOK
  <2>9. FetchesInv'
    <3>1. mount' # 0 /\ OnPage'
      BY <1>2, <1>3, <2>1 DEF OnPage
    <3>2. \A f \in fetches' : /\ f.number <= started'
                              /\ 1 <= f.mount /\ f.mount <= f.number
      BY <1>2, <2>1, <2>4, <2>5, <2>6
    <3> QED
      BY <3>1, <3>2 DEF FetchesInv
  <2>10. SoleInv' /\ LoadingFounded'
    BY <2>4, <2>7 DEF SoleInv, LoadingFounded
  <2>11. ShowsLastAnswer'
    BY <1>1, <2>4, <2>7 DEF ShowsLastAnswer, NoOutcome
  <2> QED
    BY <2>8, <2>9, <2>10, <2>11 DEF DashInv
<1>4. CASE path' # EventsPath
  <2>1. /\ mount' = 0 /\ fetches' = running /\ started' = started
        /\ loading' = FALSE /\ error' = FALSE
    BY <1>4 DEF Show
  <2>2. Current' = {}
    BY <1>2, <2>1 DEF Current
  <2>3. DashTypeOK'
    <3>1. started' \in 0..MaxFetches /\ mount' \in 0..started' /\ fetches' \subseteq Fetch
      BY <1>2, <2>1, Constants
    <3>2. /\ Filter' \in [category : Categories, search : Searches, page : 1..MaxPage]
          /\ events' \in 0..MaxAlerts /\ latest' \in Outcome
      BY <1>1, Constants, Zenon
    <3>3. loading' \in BOOLEAN /\ error' \in BOOLEAN /\ overlapped' \in BOOLEAN
      BY <1>1, <2>1
    <3> QED
      BY <1>1, <3>1, <3>2, <3>3, Zenon DEF DashTypeOK
  <2>4. FetchesInv'
    BY <1>1, <1>2, <1>4, <2>1 DEF FetchesInv, OnPage
  <2>5. SoleInv' /\ LoadingFounded' /\ ShowsLastAnswer'
    BY <1>4, <2>1, <2>2 DEF SoleInv, LoadingFounded, ShowsLastAnswer, OnPage
  <2> QED
    BY <2>3, <2>4, <2>5 DEF DashInv
<1> QED
  BY <1>3, <1>4

(* A change of the filter, beside the fetches that run. *)
LEMMA RefetchInv ==
  ASSUME DashInv, NEW new \in [category : Categories, search : Searches, page : 1..MaxPage],
         Refetch(new)
  PROVE  DashInv'
<1>1. /\ StartFetch(mount, fetches) /\ OnPage /\ OnPage'
      /\ UNCHANGED <<shellVars, alerts, mount, events, latest>>
      /\ overlapped' = (overlapped \/ Current # {})
  BY DEF Refetch, OnPage, shellVars
<1>2. Filter' = new
  BY DEF Refetch, SetFilter, Filter
<1>3. /\ fetches \in SUBSET Fetch /\ started \in 0..MaxFetches /\ mount \in 0..MaxFetches
      /\ \A f \in fetches : /\ f.number <= started /\ f.number \in Nat
                            /\ 1 <= f.mount /\ f.mount <= f.number
      /\ mount # 0 /\ mount <= started
  BY <1>1, Constants DEF DashInv, DashTypeOK, FetchesInv, Fetch
<1>4. /\ started' = started + 1 /\ started' \in 1..MaxFetches
      /\ fetches' \subseteq Fetch
      /\ loading' = TRUE /\ error' = FALSE
  BY <1>1, <1>3, NewFetch
<1>5. PICK g \in Fetch : /\ g.number = started' /\ g.mount = mount
                         /\ fetches' = fetches \cup {g}
  BY <1>1, <1>3, NewFetch
<1>6. Current' = Current \cup {g}
  BY <1>1, <1>5 DEF Current
<1>7. DashTypeOK' /\ CopyWrongIffOdd'
  <2>1. ShellTypeOK' /\ CopyWrongIffOdd'
    BY <1>1 DEF DashInv, DashTypeOK, ShellTypeOK, CopyWrongIffOdd, Mounted, shellVars
  <2>2. overlapped' \in BOOLEAN
    BY <1>1 DEF DashInv, DashTypeOK
  <2>3. started' \in 0..MaxFetches /\ mount' \in 0..started'
    BY <1>1, <1>3, <1>4
  <2>4. /\ alerts' \in 0..MaxAlerts /\ events' \in 0..MaxAlerts /\ latest' \in Outcome
        /\ Filter' \in [category : Categories, search : Searches, page : 1..MaxPage]
    BY <1>1, <1>2 DEF DashInv, DashTypeOK
  <2>5. loading' \in BOOLEAN /\ error' \in BOOLEAN
    BY <1>4
  <2> QED
    BY <1>4, <2>1, <2>2, <2>3, <2>4, <2>5, Zenon DEF DashTypeOK
<1>8. FetchesInv'
  BY <1>1, <1>3, <1>4, <1>5 DEF FetchesInv
<1>9. SoleInv' /\ LoadingFounded'
  BY <1>1, <1>4, <1>6 DEF SoleInv, LoadingFounded
<1>10. ShowsLastAnswer'
  <2>1. SUFFICES ASSUME ~overlapped'
                 PROVE  loading' = (Current' # {}) /\ events' = latest'.rows /\ loading'
    BY DEF ShowsLastAnswer
  <2>2. ~overlapped
    BY <1>1, <2>1
  <2> QED
    BY <1>1, <1>4, <1>6, <2>2 DEF DashInv, ShowsLastAnswer
<1> QED
  BY <1>7, <1>8, <1>9, <1>10 DEF DashInv

(* A fetch is answered: its page is not, yet. *)
LEMMA AnswerInv ==
  ASSUME DashInv, NEW f \in fetches, NEW outcome \in Outcome, Answer(f, outcome)
  PROVE  DashInv'
<1> DEFINE g == [f EXCEPT !.answered = TRUE, !.outcome = outcome]
<1>1. /\ fetches' = (fetches \ {f}) \cup {g}
      /\ UNCHANGED <<shellVars, alerts, started, mount, formVars, shownVars,
                     latest, overlapped>>
  BY DEF Answer
<1>2. f \in Fetch /\ fetches \subseteq Fetch
  BY DEF DashInv, DashTypeOK
<1>3. g \in Fetch /\ g.mount = f.mount /\ g.number = f.number
  BY <1>2 DEF Fetch
<1> HIDE DEF g
<1>4. fetches' \subseteq Fetch
  BY <1>1, <1>2, <1>3
<1>5. /\ OnPage' = OnPage /\ Filter' = Filter /\ Mounted' = Mounted
  BY <1>1, Zenon DEF OnPage, Filter, Mounted, shellVars, formVars
<1>6. ShellTypeOK' /\ CopyWrongIffOdd'
  BY <1>1, <1>5 DEF DashInv, DashTypeOK, ShellTypeOK, CopyWrongIffOdd, shellVars
<1>7. DashTypeOK'
  BY <1>1, <1>4, <1>5, <1>6, Zenon DEF DashInv, DashTypeOK, shownVars
<1>8. Current' = IF f.mount = mount THEN (Current \ {f}) \cup {g} ELSE Current
  BY <1>1, <1>3 DEF Current
<1>9. (Current' = {}) = (Current = {})
  BY <1>8 DEF Current
<1>10. FetchesInv'
  BY <1>1, <1>3, <1>5 DEF DashInv, FetchesInv, shownVars
<1>11. SoleInv'
  <2>1. (\A a, b \in Current : a = b) => \A a, b \in Current' : a = b
    BY <1>8 DEF Current
  <2> QED
    BY <1>1, <2>1 DEF DashInv, SoleInv, shownVars
<1>12. LoadingFounded' /\ ShowsLastAnswer'
  BY <1>1, <1>5, <1>9 DEF DashInv, LoadingFounded, ShowsLastAnswer, shownVars
<1> QED
  BY <1>6, <1>7, <1>10, <1>11, <1>12 DEF DashInv

(* The handler of a fetch runs. *)
LEMMA HandleInv ==
  ASSUME DashInv, NEW f \in fetches, Handle(f)
  PROVE  DashInv'
<1>1. /\ fetches' = fetches \ {f}
      /\ UNCHANGED <<shellVars, alerts, started, mount, formVars, overlapped>>
  BY DEF Handle
<1>2. f \in Fetch /\ fetches \subseteq Fetch /\ f.outcome \in Outcome
  BY DEF DashInv, DashTypeOK, Fetch
<1>3. f.outcome.rows \in 0..MaxAlerts /\ f.outcome.ok \in BOOLEAN
  BY <1>2 DEF Outcome
<1>4. /\ OnPage' = OnPage /\ Filter' = Filter /\ Mounted' = Mounted
  BY <1>1, Zenon DEF OnPage, Filter, Mounted, shellVars, formVars
<1>5. ShellTypeOK' /\ CopyWrongIffOdd'
  BY <1>1, <1>4 DEF DashInv, DashTypeOK, ShellTypeOK, CopyWrongIffOdd, shellVars
<1>6. FetchesInv'
  <2>1. ~OnPage => ~loading'
    BY DEF DashInv, FetchesInv, Handle, shownVars
  <2> QED
    BY <1>1, <1>4, <2>1 DEF DashInv, FetchesInv
<1>7. Current' = Current \ {f}
  BY <1>1 DEF Current
<1>8. CASE f.mount = mount
  <2>1. /\ events' = f.outcome.rows /\ error' = (error \/ ~f.outcome.ok)
        /\ loading' = FALSE /\ latest' = f.outcome
    BY <1>8 DEF Handle
  <2>2. DashTypeOK'
    <3>1. /\ events' \in 0..MaxAlerts /\ error' \in BOOLEAN /\ loading' \in BOOLEAN
          /\ latest' \in Outcome /\ fetches' \subseteq Fetch
      BY <1>1, <1>2, <1>3, <2>1
    <3> QED
      BY <1>1, <1>4, <1>5, <3>1, Zenon DEF DashInv, DashTypeOK
  <2>3. SoleInv' /\ LoadingFounded'
    BY <1>1, <1>7, <2>1 DEF DashInv, SoleInv, LoadingFounded
  <2>4. ShowsLastAnswer'
    <3>1. SUFFICES ASSUME OnPage', ~overlapped'
                   PROVE  /\ Current' = {} /\ ~error
      BY <1>3, <2>1, <3>1 DEF ShowsLastAnswer
    <3>2. ~overlapped /\ OnPage /\ f \in Current
      BY <1>1, <1>4, <1>8, <3>1 DEF Current
    <3>3. loading
      BY <3>2 DEF DashInv, ShowsLastAnswer
    <3> QED
      BY <1>7, <3>2, <3>3 DEF DashInv, SoleInv
  <2> QED
    BY <1>5, <1>6, <2>2, <2>3, <2>4 DEF DashInv
<1>9. CASE f.mount # mount
  <2>1. UNCHANGED <<shownVars, latest>>
    BY <1>9 DEF Handle
  <2>2. Current' = Current
    BY <1>7, <1>9 DEF Current
  <2>3. DashTypeOK'
    <3>1. fetches' \subseteq Fetch
      BY <1>1, <1>2
    <3> QED
      BY <1>1, <1>4, <1>5, <2>1, <3>1, Zenon DEF DashInv, DashTypeOK, shownVars
  <2>4. SoleInv' /\ LoadingFounded' /\ ShowsLastAnswer'
    BY <1>1, <1>4, <2>1, <2>2 DEF DashInv, SoleInv, LoadingFounded, ShowsLastAnswer, shownVars
  <2> QED
    BY <1>5, <1>6, <2>3, <2>4 DEF DashInv
<1> QED
  BY <1>8, <1>9
-----------------------------------------------------------------------------
(* All together. *)

LEMMA InitInv == Init => DashInv
<1> SUFFICES ASSUME Init PROVE DashInv
  OBVIOUS
<1>1. /\ path \in Paths /\ ~OnPage /\ dark = FALSE /\ odd = {}
      /\ isLoggedIn = [b \in Mounted |-> path \in Dashboard]
      /\ isDark = [b \in Mounted |-> FALSE]
  BY DEF Init, ShellInit, OnPage
<1>2. ShellTypeOK /\ CopyWrongIffOdd
  <2>1. \A b \in Mounted : (path \in Dashboard) \in BOOLEAN /\ FALSE \in BOOLEAN
    OBVIOUS
  <2>2. /\ isLoggedIn \in [Mounted -> BOOLEAN]
        /\ isDark \in [Mounted -> BOOLEAN]
    BY <1>1, <2>1, Zenon
  <2>3. dark \in BOOLEAN /\ odd \subseteq Mounted
    BY <1>1
  <2> QED
    BY <1>1, <2>2, <2>3, Zenon DEF ShellTypeOK, CopyWrongIffOdd
<1>3. /\ alerts = 0 /\ fetches = {} /\ started = 0 /\ mount = 0 /\ Filter = FirstFilter
      /\ events = 0 /\ loading = FALSE /\ error = FALSE
      /\ latest = NoOutcome /\ overlapped = FALSE
  BY DEF Init, Filter, FirstFilter
<1>4. DashTypeOK
  <2>1. started \in 0..MaxFetches /\ mount \in 0..started /\ fetches \subseteq Fetch
    BY <1>3, Constants
  <2>2. /\ Filter \in [category : Categories, search : Searches, page : 1..MaxPage]
        /\ alerts \in 0..MaxAlerts /\ events \in 0..MaxAlerts /\ latest \in Outcome
    BY <1>3, Constants, Zenon
  <2>3. loading \in BOOLEAN /\ error \in BOOLEAN /\ overlapped \in BOOLEAN
    BY <1>3
  <2> QED
    BY <1>2, <2>1, <2>2, <2>3, Zenon DEF DashTypeOK
<1>5. FetchesInv /\ SoleInv /\ LoadingFounded /\ ShowsLastAnswer
  BY <1>1, <1>3 DEF FetchesInv, SoleInv, LoadingFounded, ShowsLastAnswer, Current
<1> QED
  BY <1>2, <1>4, <1>5 DEF DashInv

(* Steps that leave the event stream alone, or touch nothing but the table. *)
LEMMA AsideInv ==
  ASSUME DashInv, ShellTypeOK', CopyWrongIffOdd', path' = path, alerts' \in 0..MaxAlerts,
         UNCHANGED <<fetches, started, mount, formVars, shownVars, latest, overlapped>>
  PROVE  DashInv'
<1>1. OnPage' = OnPage /\ Filter' = Filter /\ Current' = Current
  BY Zenon DEF OnPage, Filter, formVars, Current
<1>2. DashTypeOK'
  BY <1>1, Zenon DEF DashInv, DashTypeOK, shownVars
<1>3. FetchesInv' /\ SoleInv' /\ LoadingFounded' /\ ShowsLastAnswer'
  BY <1>1 DEF DashInv, FetchesInv, SoleInv, LoadingFounded, ShowsLastAnswer, shownVars
<1> QED
  BY <1>2, <1>3 DEF DashInv

LEMMA NextInv == DashInv /\ [Next]_vars => DashInv'
<1> SUFFICES ASSUME DashInv, [Next]_vars PROVE DashInv'
  OBVIOUS
<1>0. /\ ShellTypeOK /\ CopyWrongIffOdd /\ alerts \in 0..MaxAlerts
      /\ Filter \in [category : Categories, search : Searches, page : 1..MaxPage]
      /\ Filter.page \in 1..MaxPage
      /\ page \in 1..MaxPage /\ category \in Categories /\ search \in Searches
  <2>1. Filter \in [category : Categories, search : Searches, page : 1..MaxPage]
    BY DEF DashInv, DashTypeOK
  <2>2. Filter.page = page /\ Filter.category = category /\ Filter.search = search
    BY DEF Filter
  <2> QED
    BY <2>1, <2>2 DEF DashInv, DashTypeOK
<1>1. ASSUME NEW p \in Paths, Go(p) PROVE DashInv'
  BY <1>0, <1>1, NavigateShell, ShowInv DEF Go
<1>2. ASSUME NEW p \in Paths, Load(p) PROVE DashInv'
  BY <1>2, ReloadShell, ShowInv DEF Load
<1>3. ASSUME NEW b \in Bars, Toggle(b) PROVE DashInv'
  BY <1>0, <1>3, ToggleShell, AsideInv DEF Toggle, ToggleTheme, dashVars
<1>4. ASSUME NEW c \in Categories, ChooseCategory(c) PROVE DashInv'
  <2>1. 1 \in 1..MaxPage
    BY MaxPageNat
  <2>2. [Filter EXCEPT !.category = c, !.page = 1] \in
           [category : Categories, search : Searches, page : 1..MaxPage]
    BY <1>0, <2>1
  <2> QED
    BY <1>4, <2>2, RefetchInv DEF ChooseCategory
<1>5. ASSUME NEW text \in Searches, TypeSearch(text) PROVE DashInv'
  <2>1. [Filter EXCEPT !.search = text] \in
           [category : Categories, search : Searches, page : 1..MaxPage]
    BY <1>0
  <2> QED
    BY <1>5, <2>1, RefetchInv DEF TypeSearch
<1>6. ASSUME LoadMore PROVE DashInv'
  <2>1. page + 1 \in 1..MaxPage
    BY <1>0, <1>6, MaxPageNat DEF LoadMore
  <2>2. [Filter EXCEPT !.page = page + 1] \in
           [category : Categories, search : Searches, page : 1..MaxPage]
    BY <1>0, <2>1
  <2> QED
    BY <1>6, <2>2, RefetchInv DEF LoadMore
<1>7. ASSUME NEW f \in fetches, dbtest(f) PROVE DashInv'
  <2>1. PICK rows \in {alerts, 0} : Answer(f, [ok |-> TRUE, rows |-> rows])
    BY <1>7 DEF dbtest
  <2>2. [ok |-> TRUE, rows |-> rows] \in Outcome
    BY <1>0, Constants DEF Outcome
  <2> QED
    BY <2>1, <2>2, AnswerInv
<1>8. ASSUME NEW f \in fetches, Fails(f) PROVE DashInv'
  <2>1. [ok |-> FALSE, rows |-> 0] \in Outcome
    BY Constants DEF Outcome
  <2> QED
    BY <1>8, <2>1, AnswerInv DEF Fails
<1>9. ASSUME NEW f \in fetches, Handle(f) PROVE DashInv'
  BY <1>9, HandleInv
<1>10. ASSUME WriteAlerts PROVE DashInv'
  <2>1. alerts' \in 0..MaxAlerts
    BY <1>0, <1>10, Constants DEF WriteAlerts
  <2>2. /\ UNCHANGED shellVars
        /\ UNCHANGED <<fetches, started, mount, formVars, shownVars, latest, overlapped>>
    BY <1>10 DEF WriteAlerts
  <2>3. path' = path /\ ShellTypeOK' /\ CopyWrongIffOdd'
    BY <1>0, <2>2 DEF shellVars, ShellTypeOK, CopyWrongIffOdd, Mounted
  <2> QED
    BY <2>1, <2>2, <2>3, AsideInv
<1>11. ASSUME UNCHANGED vars PROVE DashInv'
  <2>1. /\ UNCHANGED shellVars /\ alerts' = alerts
        /\ UNCHANGED <<fetches, started, mount, formVars, shownVars, latest, overlapped>>
    BY <1>11 DEF vars, dashVars
  <2>2. path' = path /\ ShellTypeOK' /\ CopyWrongIffOdd'
    BY <1>0, <2>1 DEF shellVars, ShellTypeOK, CopyWrongIffOdd, Mounted
  <2> QED
    BY <1>0, <2>1, <2>2, AsideInv
<1> QED
  BY <1>1, <1>2, <1>3, <1>4, <1>5, <1>6, <1>7, <1>8, <1>9, <1>10, <1>11 DEF Next

LEMMA Invariance == Spec => []DashInv
  BY InitInv, NextInv, PTL DEF Spec

(* Every variable of the page, of its fetches and of the frame keeps its type.
   EventDash.js, ThemeToggleButton.js. *)
THEOREM DashTypeCorrect == Spec => []DashTypeOK
<1>1. DashInv => DashTypeOK
  BY DEF DashInv
<1> QED
  BY <1>1, Invariance, PTL

(* A theme button is wrong exactly when the theme was changed an odd number of
   times with another one since it was mounted.  ThemeToggleButton.js. *)
THEOREM CopiesExplained == Spec => []CopyWrongIffOdd
<1>1. DashInv => CopyWrongIffOdd
  BY DEF DashInv
<1> QED
  BY <1>1, Invariance, PTL

(* The page says that it loads only while one of its own fetches runs.
   EventDash.js: setLoading in fetchEvents. *)
THEOREM LoadingIsFounded == Spec => []LoadingFounded
<1>1. DashInv => LoadingFounded
  BY DEF DashInv
<1> QED
  BY <1>1, Invariance, PTL

(* As long as its fetches do not overlap the page shows what became of the last
   one.  EventDash.js: fetchEvents. *)
THEOREM LastAnswerShown == Spec => []ShowsLastAnswer
<1>1. DashInv => ShowsLastAnswer
  BY DEF DashInv
<1> QED
  BY <1>1, Invariance, PTL
=============================================================================
