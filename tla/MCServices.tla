----------------------------- MODULE MCServices -----------------------------
(***************************************************************************)
(* The services around the book, which share no state: the locks of the    *)
(* desk's handlers, sign-ins, edits of the guards, minute bars, the logs,  *)
(* the two collectors of option prints, and the executor that mirrors the  *)
(* book, with the directory it writes to.  A behaviour is one of `part`;   *)
(* the others stay as they began.                                          *)
(***************************************************************************)
EXTENDS DeskLocks, GuardEdits, MinuteBars, Sessions, Executor, AccountDirectory,
        GoldPoll, Collector, EventLog, TLC

CONSTANTS
  Parts,     \* the services a run looks at
  Long, Short

VARIABLE part

-----------------------------------------------------------------------------
ButAct == {"start", "stop", "bar", "tick", "status", "detail", "pending", "intent", "m1",
           "guards_get", "guards_set"}
WithAct == ButAct \cup {"act"}
Interchangeable == Permutations(Workers) \cup Permutations({Long, Short})

Alone == {"desk"}
TwoBrowsers == {"desk", "phone"}

Other == [header |-> "other", key |-> Absent, value |-> Absent]
Auth == [header |-> "auth", key |-> Absent, value |-> Absent]
Line(key, value) == [header |-> Absent, key |-> key, value |-> value]
TomlFiles ==
  {<< >>,
   <<Other, Line("hash", 7)>>,
   <<Auth, Line("enabled", TRUE), Other, Line("salt", 7)>>,
   <<Other, Line("salt", 7), Auth, Line("salt", 9), Line("note", 5)>>}

TwoQuotes == {[bid |-> 1, ask |-> 2], [bid |-> 1, ask |-> 3]}

FourLines == <<1, 2, 1, 3>>

(* Two prints of one moment, the last one of the next day. *)
FivePrints == 1..5
Stamps == <<0, 1, 2, 2, 3>>
(* The backfill's days begin in the middle of the store's. *)
OddDays == {-2, 1}

Moment(day, late, trading) == [day |-> day, late |-> late, trading |-> trading]
Weekend ==
  <<Moment("friday", FALSE, TRUE), Moment("friday", TRUE, TRUE),
    Moment("saturday", FALSE, FALSE), Moment("sunday", FALSE, FALSE),
    Moment("sunday", TRUE, TRUE)>>
Wealth == {None, [equity |-> 10, margin |-> 0]}
Costs == {[notional |-> 30, margin |-> 1], [notional |-> None, margin |-> 1]}
NearAndFar == {-4, -1, 0, 2}
BothSides == {Long, Short}
(* With --mirror-pending an order's copy rests at the broker. *)
Copies == INSTANCE Executor WITH
  Mirrors <- {TRUE}, MaxAdoptBars <- 0, AllowFavourable <- TRUE, Validities <- {2}, MaxBars <- 2,
  MaxFaults <- 0

Terminal(login, server, demo) == [login |-> login, server |-> server, demo |-> demo]
Grant(realMoney, login) == [realMoney |-> realMoney, login |-> login]
Logins == {Terminal(1, "demo", TRUE), Terminal(1, "live", FALSE), Terminal(2, "live", FALSE)}
Grants == {NoValue, Grant(FALSE, 1), Grant(TRUE, 2), Grant(TRUE, NoValue)}

-----------------------------------------------------------------------------
ServicesInit ==
  /\ part \in Parts
  /\ Init /\ SessionsInit /\ GuardsInit /\ MinutesInit /\ DirectoryInit
  /\ GoldInit /\ CollectInit /\ LogInit
  /\ IF part = "copies" THEN Copies!MirrorInit ELSE MirrorInit
  /\ part # "sign-in" => file = << >>

ServicesNext ==
  /\ UNCHANGED part
  /\ \/ part = "locks" /\ Next
        /\ UNCHANGED <<sessionVars, guardVars, minuteVars, logVars, collectorVars, goldVars, mirrorVars, directoryVars>>
     \/ part = "sign-in" /\ SessionsNext
        /\ UNCHANGED <<vars, guardVars, minuteVars, logVars, collectorVars, goldVars, mirrorVars, directoryVars>>
     \/ part = "guards" /\ GuardsNext
        /\ UNCHANGED <<vars, sessionVars, minuteVars, logVars, collectorVars, goldVars, mirrorVars, directoryVars>>
     \/ part = "minutes" /\ MinutesNext
        /\ UNCHANGED <<vars, sessionVars, guardVars, logVars, collectorVars, goldVars, mirrorVars, directoryVars>>
     \/ part = "logs" /\ LogNext
        /\ UNCHANGED <<vars, sessionVars, guardVars, minuteVars, collectorVars, goldVars, mirrorVars, directoryVars>>
     \/ part = "prints" /\ CollectNext
        /\ UNCHANGED <<vars, sessionVars, guardVars, minuteVars, logVars, goldVars, mirrorVars, directoryVars>>
     \/ part = "gold" /\ GoldNext
        /\ UNCHANGED <<vars, sessionVars, guardVars, minuteVars, logVars, collectorVars, mirrorVars, directoryVars>>
     \/ part \in {"mirror", "copies"}
        /\ \/ part = "mirror" /\ MirrorNext
           \/ part = "copies" /\ Copies!MirrorNext
        /\ UNCHANGED <<vars, sessionVars, guardVars, minuteVars, logVars, collectorVars, goldVars,
                       directoryVars>>
     \/ part = "directory" /\ DirectoryNext
        /\ UNCHANGED <<vars, sessionVars, guardVars, minuteVars, logVars, collectorVars, goldVars,
                       mirrorVars>>

everything == <<part, vars, sessionVars, guardVars, minuteVars, logVars, collectorVars, goldVars, mirrorVars, directoryVars>>
ServicesSpec == ServicesInit /\ [][ServicesNext]_everything

=============================================================================
