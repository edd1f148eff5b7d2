------------------------------ MODULE AppShell ------------------------------
(***************************************************************************)
(* The frame of the dashboard in one browser tab: the current path, the    *)
(* navigation bars of Navbar.js and the theme buttons of                   *)
(* ThemeToggleButton.js in them.                                           *)
(*                                                                         *)
(* The root layout holds a bar that is mounted when the document is loaded *)
(* and stays through every navigation.  The events page brings a second    *)
(* one, mounted with the page.  Each bar works out when it is mounted      *)
(* whether the user is logged in (from the path) and what the theme is     *)
(* (from the class of the html element), and keeps its copy from then on.  *)
(***************************************************************************)
EXTENDS Naturals

CONSTANT Paths  \* the pages, EventsPath among them

EventsPath == "/dashboard/events"

ASSUME PathsAssumption == EventsPath \in Paths

VARIABLES path,        \* window.location.pathname
          dark,        \* document.documentElement has the class dark
          isLoggedIn,  \* of each bar that is mounted
          isDark,      \* of the theme button of each bar that is mounted
          odd          \* history: the bars since whose mount the theme was
                       \* changed an odd number of times with the other one

shellVars == <<path, dark, isLoggedIn, isDark, odd>>

Bars == {"root", "page"}
Dashboard == Paths \ {"/", "/login"}

Mounted == {"root"} \cup (IF path = EventsPath THEN {"page"} ELSE {})

ShellInit == /\ path \in Paths
             /\ dark = FALSE
             /\ isLoggedIn = [b \in Mounted |-> path \in Dashboard]
             /\ isDark = [b \in Mounted |-> FALSE]
             /\ odd = {}

(* Mutant: the effect that reads the theme is missing. *)
ThemeAtMount_Default == FALSE

(* What a theme button finds when it is mounted. *)
ThemeAtMount == dark

(* The router changes the page: a link, router.push, or the way back. *)
Navigate(p) ==
    /\ p # path
    /\ path' = p
    /\ isLoggedIn' = [b \in Mounted' |-> IF b = "root" THEN isLoggedIn[b]
                                                       ELSE p \in Dashboard]
    /\ isDark' = [b \in Mounted' |-> IF b = "root" THEN isDark[b] ELSE ThemeAtMount]
    /\ odd' = odd \ {"page"}
    /\ dark' = dark

(* A new document, at any address.  Nobody stores the theme. *)
Reload(p) ==
    /\ path' = p
    /\ dark' = FALSE
    /\ isLoggedIn' = [b \in Mounted' |-> p \in Dashboard]
    /\ isDark' = [b \in Mounted' |-> FALSE]
    /\ odd' = {}

(* handleClick of the theme button of bar b. *)
ToggleTheme(b) ==
    /\ b \in Mounted
    /\ dark' = ~dark
    /\ isDark' = [isDark EXCEPT ![b] = ~isDark[b]]
    /\ odd' = LET others == Mounted \ {b} IN (odd \ others) \cup (others \ odd)
    /\ UNCHANGED <<path, isLoggedIn>>

ShellTypeOK == /\ path \in Paths
               /\ dark \in BOOLEAN
               /\ isLoggedIn \in [Mounted -> BOOLEAN]
               /\ isDark \in [Mounted -> BOOLEAN]
               /\ odd \subseteq Mounted

(* A theme button shows the wrong symbol exactly when the theme was changed an
   odd number of times with another button since it was mounted, the buttons
   of pages that are gone included.  ThemeToggleButton.js: the copy is made at
   mount and then only toggled along with the class. *)
CopyWrongIffOdd == \A b \in Mounted : isDark[b] # dark <=> b \in odd
=============================================================================
