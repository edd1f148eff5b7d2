---------------------------- MODULE MCLoginPage ----------------------------
(* Instances of LoginPage for TLC. *)
EXTENDS LoginPage, TLC

CONSTANTS admin, bob, pw

(* "Admin" and "admin" are two words and one name to the database. *)
AnyCase == [w \in {Admin, admin, bob, pw} |-> IF w = admin THEN Admin ELSE w]

Form(n, p) == [name |-> n, password |-> p]

FirstLogin == <<"login", Form(Admin, Admin)>>

(* What a client sends that registers the user of the page, and changes the
   credentials to another. *)
Api == {<<"register", Form(admin, pw)>>,
        <<"change", Form(bob, pw)>>, <<"change", Form(bob, None)>>}

PageAndApi == Api \cup {FirstLogin, <<"login", Form(admin, pw)>>, <<"change", Form(admin, pw)>>}

PagesOnly == {FirstLogin, <<"change", Form(bob, pw)>>}

PageSymmetry == Permutations(Pages)
=============================================================================
