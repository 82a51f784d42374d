---------------------------- MODULE MCFrontDoor -----------------------------
(* An owner, a member and two visitors behind one address. *)
EXTENDS FrontDoor

CONSTANTS t1, t2, t3, t4, ann, bob, cy, gateway

SharedAddress == [t \in Tabs |-> gateway]
AnnsTeam == [u \in Emails |->
               CASE u = ann -> [org |-> ann, role |-> "owner"]
                 [] u = bob -> [org |-> ann, role |-> "member"]
                 [] u = cy -> None]
AtHome == [t \in Tabs |-> CASE t = t1 -> ann [] t = t2 -> bob [] OTHER -> None]

UpTo(n) == [s \in Scopes |-> n]

\* Sign-ins and sign-outs of one tab overlap, and calls go wrong.
Sessions == [tabs |-> {t1}, does |-> {"login", "logout", "me"}, emails |-> {bob},
             calls |-> 5, limit |-> UpTo(3), time |-> 1, wait |-> 0, faults |-> 1]
\* A tab is closed with calls under way, and another one is opened in its place.
Closing == [tabs |-> {t1}, does |-> {"login", "logout", "me", "close"}, emails |-> {bob},
            calls |-> 4, limit |-> UpTo(3), time |-> 1, wait |-> 0, faults |-> 1]
\* One tab works, reloads its page and changes its user.
Pages == [tabs |-> {t1}, does |-> {"login", "logout", "me", "change", "propose"}, emails |-> {bob},
          calls |-> 4, limit |-> UpTo(2), time |-> 1, wait |-> 0, faults |-> 1]
\* Accounts are registered and added from several tabs.
Accounts == [tabs |-> {t1, t2, t3}, does |-> {"register", "login", "member"}, emails |-> {cy},
             calls |-> 4, limit |-> UpTo(3), time |-> 1, wait |-> 0, faults |-> 1]
\* Sessions expire.
Expiry == [tabs |-> {t1}, does |-> {"logout", "me", "change"}, emails |-> {},
           calls |-> 3, limit |-> UpTo(2), time |-> 3, wait |-> 0, faults |-> 0]
\* Calls over three windows and a collection, some of which wait for the limiter.
Crowd == [tabs |-> {t3, t4}, does |-> {"login"}, emails |-> {cy},
          calls |-> 4, limit |-> UpTo(1), time |-> 5, wait |-> 1, faults |-> 0]

AllScenarios == {Sessions, Closing, Pages, Accounts, Expiry, Crowd}
=============================================================================
