-------------------------- MODULE AccountDirectory --------------------------
(***************************************************************************)
(* Whose record a live directory is (mt5_executor.py, check_identity and   *)
(* real_money_refusal).  Each start of an executor looks at the account    *)
(* the terminal holds, at the registry and at the stamp the first start    *)
(* left; whatever it trades afterwards is written into the directory.      *)
(***************************************************************************)
EXTENDS Naturals, FiniteSets

CONSTANTS
  NoValue,    \* no answer, no file, a field that is missing
  Damaged,    \* a stamp that cannot be read, or names no login
  Accounts,   \* the accounts there are: [login, server, demo]
  Registries, \* what accounts.toml may say of this id: NoValue, or [realMoney, login]
  StampEdits, \* what a person or a full disk may leave of a stamp
  StampFails  \* the stamp may fail to be written

VARIABLES
  terminal,  \* the account it is logged into, or NoValue
  stamp,     \* identity.json
  running,   \* an executor is in its loop
  recorded   \* the accounts whose fills the directory holds
directoryVars == <<terminal, stamp, running, recorded>>

DirectoryInit == terminal = NoValue /\ stamp = NoValue /\ running = FALSE /\ recorded = {}

-----------------------------------------------------------------------------
RealMoneyRefused(acc, allowReal, registry) ==
  \/ ~allowReal \/ registry = NoValue
  \/ ~registry.realMoney
  \/ registry.login # NoValue /\ registry.login # acc.login

BugCheckIdentity(acc) ==
  stamp # Damaged => stamp.login = acc.login
CheckIdentity(acc) ==
  /\ stamp # Damaged
  /\ stamp.login = acc.login
  /\ stamp.server # NoValue => stamp.server = acc.server
  /\ stamp.demo # NoValue => stamp.demo = acc.demo

(* A terminal logged into an account, by a person, between two runs. *)
LogsIn ==
  /\ ~running
  /\ terminal' \in Accounts \cup {NoValue}
  /\ UNCHANGED <<stamp, running, recorded>>

ExecutorStarts ==
  /\ ~running /\ terminal # NoValue
  /\ \E login \in {a.login : a \in Accounts} : terminal.login = login
  /\ \E allowReal \in BOOLEAN, registry \in Registries :
       ~terminal.demo => ~RealMoneyRefused(terminal, allowReal, registry)
  /\ \/ stamp # NoValue /\ CheckIdentity(terminal) /\ UNCHANGED stamp
     \/ stamp = NoValue /\ stamp' = terminal
     \/ stamp = NoValue /\ StampFails /\ UNCHANGED stamp
  /\ running' = TRUE
  /\ UNCHANGED <<terminal, recorded>>

Records ==
  /\ running
  /\ recorded' = recorded \cup {terminal}
  /\ UNCHANGED <<terminal, stamp, running>>

Exits ==
  /\ running /\ running' = FALSE
  /\ UNCHANGED <<terminal, stamp, recorded>>

Edited ==
  /\ stamp # NoValue /\ stamp # Damaged
  /\ \E edit \in StampEdits :
       stamp' = CASE edit = "damage" -> Damaged
                  [] edit = "no server" -> [stamp EXCEPT !.server = NoValue]
                  [] edit = "no demo" -> [stamp EXCEPT !.demo = NoValue]
  /\ UNCHANGED <<terminal, running, recorded>>

DirectoryNext == LogsIn \/ ExecutorStarts \/ Records \/ Exits \/ Edited
DirectorySpec == DirectoryInit /\ [][DirectoryNext]_directoryVars

-----------------------------------------------------------------------------
(* A directory never holds two accounts' fills, over any number of starts,  *)
(* log-ins and damaged stamps (check_identity).                             *)
DirectoryIsOneAccount == Cardinality(recorded) <= 1
=============================================================================
