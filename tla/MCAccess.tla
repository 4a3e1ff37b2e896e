------------------------------ MODULE MCAccess ------------------------------
(***************************************************************************)
(* Instances of Access, ConfigEditing and ConsoleLogin for TLC: five       *)
(* deployments, the mini-program with its server, once without the login   *)
(* page and once with it, two tabs of the console that edit one row of the *)
(* configuration, and administrators who sign in to the console, in one    *)
(* tab or one of them in two.  The flows of the mini-program are           *)
(* interchangeable.                                                        *)
(***************************************************************************)
EXTENDS Access, ConfigEditing, ConsoleLogin, TLC

CONSTANTS
  Reader,       \* the tab where only the switch is used
  Second,       \* the administrator the two tabs are without
  Aside,        \* the tab that one tab alone is without
  Together      \* bound: what they do where there are two of either

VARIABLE part

(* The page stores a string without the blanks around it.                  *)
Texts == {"a", "b", "b "}
Trimmed == [t \in Texts |-> IF t = "a" THEN "a" ELSE "b"]
Seeded == [f \in Field |-> "a"]

MCInit ==
  /\ Init /\ ConfigInit /\ ConsoleInit
  /\ part \in {"access", "loginPage", "editing", "alone", "together"}

(* Tokens do not age and Redis is up: sessions end by logout or by TTL.    *)
Steady == UNCHANGED environment

ReaderTurns ==
  /\ ~view'[Reader].open
  /\ edits' # 0 => \A s \in Slot : patch'[s].tab = Reader => patch'[s].pc = "free" \/ patch'[s].kind = "switch"

OneTab ==
  /\ window'[Aside] = window[Aside]
  /\ \A c \in Line : line'[c].window # Aside \/ line'[c] = NoExchange

OneAdmin ==
  /\ \A t \in Session : signedIn'[t] # Second
  /\ \A c \in Line : line'[c].admin # Second

MCNext ==
  /\ UNCHANGED part
  /\ \/ part = "access" /\ Next /\ page' = "closed" /\ UNCHANGED <<editing, console>>
     \/ part = "loginPage" /\ Next /\ Steady /\ UNCHANGED <<editing, console>>
     \/ part = "editing" /\ ConfigNext /\ ReaderTurns /\ UNCHANGED <<vars, console>>
     \/ part = "alone" /\ ConsoleNext /\ OneTab /\ (OneAdmin \/ clicks' <= Together) /\ UNCHANGED <<vars, editing>>
     \/ part = "together" /\ ConsoleNext /\ OneAdmin /\ clicks' <= Together /\ UNCHANGED <<vars, editing>>

MCSpec == MCInit /\ [][MCNext]_<<vars, editing, console, part>>

Flows == Permutations(Flow)
=============================================================================
