--------------------------- MODULE Services_proofs ---------------------------
(***************************************************************************)
(* What is proved of the services around the book, each on its own: the    *)
(* directory of the executor, the edits of the guards, the sign-ins, the   *)
(* minute bars, the executor itself and the desk's locks.  Each keeps the  *)
(* specification of its own module.                                        *)
(***************************************************************************)
EXTENDS AccountDirectory, GuardEdits, Sessions, MinuteBars, Executor, DeskLocks,
        FiniteSetTheorems, SequenceTheorems, NaturalsInduction, WellFoundedInduction,
        TLAPS

-----------------------------------------------------------------------------
(* A nonempty set of positions in a sequence has a first member. *)
LEMMA FirstOf ==
  ASSUME NEW T, T \subseteq Nat, T # {}
  PROVE  \E i \in T : \A j \in T : i <= j
<1>1. PICK i \in T : \A j \in T : ~(<<j, i>> \in OpToRel(<, Nat))
  BY NatLessThanWellFounded, WFMin
<1>2. i \in T /\ \A j \in T : ~(j < i)
  BY <1>1 DEF OpToRel
<1> QED BY <1>2

(* The least and the greatest of a set of integers are what CHOOSE picks. *)
LEMMA LeastIs ==
  ASSUME NEW S, S \subseteq Int, NEW m \in S, \A j \in S : m <= j
  PROVE  (CHOOSE i \in S : \A j \in S : i <= j) = m
<1> DEFINE c == CHOOSE i \in S : \A j \in S : i <= j
<1>1. c \in S /\ \A j \in S : c <= j
  BY Zenon
<1> HIDE DEF c
<1>2. c = m
  BY <1>1
<1> QED BY <1>2 DEF c

LEMMA GreatestIs ==
  ASSUME NEW S, S \subseteq Int, NEW m \in S, \A j \in S : j <= m
  PROVE  (CHOOSE i \in S : \A j \in S : j <= i) = m
<1> DEFINE c == CHOOSE i \in S : \A j \in S : j <= i
<1>1. c \in S /\ \A j \in S : j <= c
  BY Zenon
<1> HIDE DEF c
<1>2. c = m
  BY <1>1
<1> QED BY <1>2 DEF c

-----------------------------------------------------------------------------
(***************************************************************************)
(* Whose record a directory is: the stamp the first start leaves names the *)
(* account of every fill that is ever written beside it.                   *)
(***************************************************************************)
(* A login number is unique to a server, and an account has both. *)
DistinctAccounts ==
  /\ NoValue # Damaged
  /\ \A a \in Accounts :
       /\ a = [login |-> a.login, server |-> a.server, demo |-> a.demo]
       /\ a # NoValue /\ a # Damaged /\ a.server # NoValue
  /\ \A a, b \in Accounts : a.login = b.login /\ a.server = b.server => a = b

(* A stamp may be damaged or lose its demo field, but not its server; and
   neither edit makes it the file that is missing, nor a readable one. *)
KeepsItsServer ==
  /\ StampEdits \subseteq {"damage", "no demo"}
  /\ \A login, server, demo :
       LET written == [login |-> login, server |-> server, demo |-> demo]
       IN  written # NoValue /\ written # Damaged

(* Nothing is recorded before there is a stamp, and whatever is recorded, or
   may be by the executor that runs, is of the account it names. *)
Written == recorded \cup (IF running THEN {terminal} ELSE {})
Stamped ==
  /\ Written \subseteq Accounts
  /\ terminal \in Accounts \cup {NoValue}
  /\ stamp = NoValue => Written = {}
  /\ stamp \notin {NoValue, Damaged} =>
       /\ stamp = [login |-> stamp.login, server |-> stamp.server, demo |-> stamp.demo]
       /\ stamp.server # NoValue
       /\ \A a \in Written : stamp.login = a.login /\ stamp.server = a.server
  /\ \A a, b \in Written : a = b

LEMMA StartStamps ==
  ASSUME DistinctAccounts, KeepsItsServer, ~StampFails, Stamped, ExecutorStarts
  PROVE  Stamped'
<1>1. terminal \in Accounts /\ ~running /\ running' /\ terminal' = terminal /\ recorded' = recorded
  BY DEF ExecutorStarts, Stamped
<1>2. Written' = recorded \cup {terminal} /\ Written = recorded
  BY <1>1 DEF Written
<1>3. CASE stamp # NoValue /\ CheckIdentity(terminal) /\ UNCHANGED stamp
  <2>1. stamp \notin {NoValue, Damaged} /\ stamp.login = terminal.login /\ stamp.server = terminal.server
    BY <1>3 DEF CheckIdentity, Stamped
  <2>2. \A a \in recorded : a = terminal
    BY <1>1, <1>2, <2>1 DEF Stamped, DistinctAccounts
  <2> QED BY <1>1, <1>2, <1>3, <2>1, <2>2 DEF Stamped
<1>4. CASE stamp = NoValue /\ stamp' = terminal
  BY <1>1, <1>2, <1>4 DEF Stamped, DistinctAccounts
<1> QED BY <1>3, <1>4 DEF ExecutorStarts

LEMMA StampedKept ==
  ASSUME DistinctAccounts, KeepsItsServer, ~StampFails, Stamped, [DirectoryNext]_directoryVars
  PROVE  Stamped'
<1>1. CASE LogsIn
  <2>1. Written' = recorded /\ Written = recorded
    BY <1>1 DEF LogsIn, Written
  <2> QED BY <1>1, <2>1 DEF LogsIn, Stamped
<1>2. CASE ExecutorStarts
  BY <1>2, StartStamps
<1>3. CASE Records
  <2>1. Written' = Written
    BY <1>3 DEF Records, Written
  <2> QED BY <1>3, <2>1 DEF Records, Stamped
<1>4. CASE Exits
  <2>1. Written' \subseteq Written
    BY <1>4 DEF Exits, Written
  <2> QED BY <1>4, <2>1 DEF Exits, Stamped
<1>5. CASE Edited
  <2>1. Written' = Written
    BY <1>5 DEF Edited, Written
  <2>2. PICK edit \in StampEdits :
          stamp' = CASE edit = "damage" -> Damaged
                     [] edit = "no server" -> [stamp EXCEPT !.server = NoValue]
                     [] edit = "no demo" -> [stamp EXCEPT !.demo = NoValue]
    BY <1>5 DEF Edited
  <2>3. CASE edit = "damage"
    <3>1. stamp' = Damaged
      BY <2>2, <2>3
    <3> QED BY <1>5, <2>1, <3>1 DEF Edited, Stamped, DistinctAccounts
  <2>4. CASE edit = "no demo"
    <3>1. stamp' = [stamp EXCEPT !.demo = NoValue]
      BY <2>2, <2>4
    <3>2. stamp' = [login |-> stamp.login, server |-> stamp.server, demo |-> NoValue]
      BY <1>5, <3>1 DEF Edited, Stamped
    <3> QED BY <1>5, <2>1, <3>2 DEF Edited, Stamped, KeepsItsServer
  <2> QED BY <2>3, <2>4 DEF KeepsItsServer
<1>6. CASE UNCHANGED directoryVars
  BY <1>6 DEF directoryVars, Stamped, Written
<1> QED BY <1>1, <1>2, <1>3, <1>4, <1>5, <1>6 DEF DirectoryNext

(* DirectoryIsOneAccount, for every set of accounts and every registry, however
   often the terminal changes its account, an executor is started and a stamp
   is damaged or loses its demo field - if the first stamp can be written
   (check_identity goes on without one) and logins are unique to a server. *)
THEOREM OneAccountEach ==
  ASSUME DistinctAccounts, KeepsItsServer, ~StampFails
  PROVE  DirectorySpec => []DirectoryIsOneAccount
<1>1. DirectoryInit => Stamped
  BY DEF DirectoryInit, Stamped, Written
<1>2. Stamped /\ [DirectoryNext]_directoryVars => Stamped'
  BY StampedKept
<1>3. Stamped => DirectoryIsOneAccount
  <2> SUFFICES ASSUME Stamped PROVE Cardinality(recorded) <= 1
    BY DEF DirectoryIsOneAccount
  <2>1. CASE recorded = {}
    BY <2>1, FS_EmptySet
  <2>2. CASE recorded # {}
    <3>1. PICK a \in recorded : recorded = {a}
      BY <2>2 DEF Stamped, Written
    <3> QED BY <3>1, FS_Singleton
  <2> QED BY <2>1, <2>2
<1> QED BY <1>1, <1>2, <1>3, PTL DEF DirectorySpec

-----------------------------------------------------------------------------
(***************************************************************************)
(* The guards survive a restart when posts come one at a time: whatever    *)
(* step of the only post there is fails, or ends with the process.         *)
(***************************************************************************)
AllEdits == Edits \cup {Configured}

(* Between a post's comparison and its write the memory is ahead of the file;
   a post under way has put its own edit into memory. *)
Ahead(c) ==
  /\ calls = [d \in {c} |-> calls[c]]
  /\ edits \in AllEdits
  /\ calls[c].body \in AllEdits
  /\ calls[c].at \in {"none", "compare"} /\ ~unwritten => Loaded = edits
  /\ calls[c].at \in {"after", "truncate", "write", "record"} => edits = calls[c].body
  /\ calls[c].at = "record" => toml = edits
  /\ toml \in AllEdits \cup {Torn}
  /\ calls[c] = [at |-> calls[c].at, body |-> calls[c].body, from |-> calls[c].from,
                 to |-> calls[c].to]

(* Ahead is kept by every step of a lone client's post and by a restart. *)
LEMMA AheadKept ==
  ASSUME NEW c, Clients = {c}, Torn \notin AllEdits, Ahead(c), [GuardsNext]_guardVars
  PROVE  Ahead(c)'
<1> USE DEF Ahead, AllEdits, Loaded, Moves, Answers, NoCall
<1>1. CASE \E body \in Edits : ReadBefore(c, body)
  <2>1. PICK body \in Edits : ReadBefore(c, body)
    BY <1>1
  <2>2. calls'[c] = [NoCall EXCEPT !.at = "compare", !.body = body, !.from = edits]
    BY <2>1 DEF ReadBefore
  <2>3. calls' = [d \in {c} |-> calls'[c]]
    BY <2>1, <2>2 DEF ReadBefore
  <2> QED BY <2>1, <2>2, <2>3 DEF ReadBefore
<1>2. CASE Replace(c)
  BY <1>2 DEF Replace
<1>3. CASE ReadAfter(c)
  BY <1>3 DEF ReadAfter
<1>4. CASE Truncate(c)
  BY <1>4 DEF Truncate
<1>5. CASE \E outcome \in Outcomes : WriteFile(c, outcome)
  BY <1>5 DEF WriteFile
<1>6. CASE Record(c)
  BY <1>6 DEF Record
<1>7. CASE Reload
  BY <1>7 DEF Reload
<1>8. CASE UNCHANGED guardVars
  BY <1>8 DEF guardVars
<1> QED BY <1>1, <1>2, <1>3, <1>4, <1>5, <1>6, <1>7, <1>8 DEF GuardsNext

(* SurvivesRestart, for every set of edits and any number of posts, restarts
   and failed or torn writes, of one client: two of them lose it (guards_set
   drops its lock before it writes). *)
THEOREM EditsSurvive ==
  ASSUME NEW c, Clients = {c}, Torn \notin AllEdits
  PROVE  GuardsSpec => []SurvivesRestart
<1>1. GuardsInit => Ahead(c)
  BY DEF GuardsInit, Ahead, AllEdits, NoCall, Loaded
<1>2. Ahead(c) /\ [GuardsNext]_guardVars => Ahead(c)'
  BY AheadKept
<1>3. Ahead(c) => SurvivesRestart
  BY DEF Ahead, SurvivesRestart, NoPost
<1> QED BY <1>1, <1>2, <1>3, PTL DEF GuardsSpec

-----------------------------------------------------------------------------
(***************************************************************************)
(* That every wrong answer costs its whole wait, for every number of       *)
(* browsers, every schedule of waits and every restart.                    *)
(***************************************************************************)
WholeWaits == FreeAttempts \in Nat /\ LockoutBase \in Int /\ LockoutMax \in Int

SignInTyped ==
  /\ clock \in Nat /\ wrongAt \in Nat
  /\ live = [sessions |-> live.sessions, failures |-> live.failures,
             lockedUntil |-> live.lockedUntil, verifying |-> live.verifying]
  /\ live.failures \in Nat /\ live.lockedUntil \in Int
  /\ checking = [b \in Browsers |-> checking[b]]

(* One answer is checked at a time, and none while a wait is running.       *)
OneAtATime ==
  /\ \A b \in Browsers : checking[b] # Absent =>
       (live.verifying = TRUE) /\ live.lockedUntil <= clock
  /\ \A b, c \in Browsers : checking[b] # Absent /\ checking[c] # Absent => b = c

(* The wait that runs is the one the last wrong answer cost.                *)
WaitIsOfLast ==
  live.failures > 0 =>
    /\ wrongAt <= clock
    /\ Backoff(live.failures) > 0 => live.lockedUntil = wrongAt + Backoff(live.failures)

Priced == SignInTyped /\ OneAtATime /\ WaitIsOfLast

-----------------------------------------------------------------------------
LEMMA WaitsAreWhole ==
  ASSUME WholeWaits, NEW failures \in Nat
  PROVE  Backoff(failures) \in Int
<1>1. CASE failures <= FreeAttempts
  BY <1>1 DEF Backoff
<1>2. CASE ~(failures <= FreeAttempts)
  <2>1. PICK n \in Nat : n = failures - FreeAttempts - 1
    BY <1>2 DEF WholeWaits
  <2>2. \A k \in Nat : 2 ^ k \in Int
    BY SMT
  <2>3. LockoutBase * 2 ^ n \in Int
    BY <2>2 DEF WholeWaits
  <2>4. LockoutBase * 2 ^ (failures - FreeAttempts - 1) \in Int
    BY <2>1, <2>3
  <2> DEFINE doubled == LockoutBase * 2 ^ (failures - FreeAttempts - 1)
  <2>5. Backoff(failures) = IF doubled < LockoutMax THEN doubled ELSE LockoutMax
    BY <1>2 DEF Backoff
  <2> HIDE DEF doubled
  <2> QED BY <2>4, <2>5 DEF WholeWaits, doubled
<1> QED BY <1>1, <1>2

LEMMA BeginsUnpriced ==
  ASSUME SessionsInit
  PROVE  Priced
BY DEF SessionsInit, NoOne, Priced, SignInTyped, OneAtATime, WaitIsOfLast

LEMMA StepsArePriced ==
  ASSUME WholeWaits, Priced, [SessionsNext]_sessionVars
  PROVE  /\ Priced'
         /\ live'.failures > live.failures /\ live.failures > 0 =>
              clock >= wrongAt + Backoff(live.failures)
<1> USE DEF Priced
<1> DEFINE HasWaited == live'.failures > live.failures /\ live.failures > 0 =>
                       clock >= wrongAt + Backoff(live.failures)
<1>1. ASSUME NEW b \in Browsers, NEW right \in BOOLEAN, Login(b, right) PROVE Priced' /\ HasWaited
  <2>1. /\ live' = [live EXCEPT !.verifying = TRUE]
        /\ checking' = [checking EXCEPT ![b] = [right |-> right, since |-> clock]]
        /\ UNCHANGED <<clock, wrongAt>> /\ live.lockedUntil <= clock /\ ~live.verifying
    BY <1>1 DEF Login
  <2>2. /\ live' = [sessions |-> live.sessions, failures |-> live.failures,
                   lockedUntil |-> live.lockedUntil, verifying |-> TRUE]
    BY <2>1 DEF SignInTyped
  <2>3. \A c \in Browsers : checking[c] = Absent
    BY <2>1 DEF OneAtATime
  <2>4. SignInTyped'
    BY <2>1, <2>2 DEF SignInTyped
  <2>5. OneAtATime'
    BY <2>1, <2>2, <2>3 DEF OneAtATime, SignInTyped
  <2>6. WaitIsOfLast'
    BY <2>1, <2>2 DEF WaitIsOfLast
  <2> QED BY <2>2, <2>4, <2>5, <2>6 DEF SignInTyped
<1>2. ASSUME NEW b \in Browsers, Wrong(b) PROVE Priced' /\ HasWaited
  <2> DEFINE failures == live.failures + 1
             wait == Backoff(failures)
             until == IF wait > 0 THEN clock + wait ELSE live.lockedUntil
  <2>1. /\ live' = [live EXCEPT !.verifying = FALSE, !.failures = failures, !.lockedUntil = until]
        /\ checking' = [checking EXCEPT ![b] = Absent] /\ checking[b] # Absent
        /\ wrongAt' = clock /\ clock' = clock
    BY <1>2 DEF Wrong
  <2>2. failures \in Nat /\ wait \in Int /\ until \in Int
    BY WaitsAreWhole DEF SignInTyped
  <2> HIDE DEF failures, until
  <2>3. live' = [sessions |-> live.sessions, failures |-> failures, lockedUntil |-> until,
                 verifying |-> FALSE]
    BY <2>1 DEF SignInTyped
  <2>4. SignInTyped'
    BY <2>1, <2>2, <2>3 DEF SignInTyped
  <2>5. OneAtATime'
    BY <2>1 DEF OneAtATime, SignInTyped
  <2>6. WaitIsOfLast'
    BY <2>1, <2>2, <2>3 DEF WaitIsOfLast, SignInTyped, until
  <2>7. HasWaited
    <3> SUFFICES ASSUME live.failures > 0 PROVE clock >= wrongAt + Backoff(live.failures)
      OBVIOUS
    <3>1. Backoff(live.failures) \in Int
      BY WaitsAreWhole DEF SignInTyped
    <3>2. live.lockedUntil <= clock /\ wrongAt <= clock
      BY <2>1 DEF OneAtATime, WaitIsOfLast
    <3> QED BY <3>1, <3>2 DEF WaitIsOfLast, SignInTyped
  <2> QED BY <2>4, <2>5, <2>6, <2>7
<1>3. ASSUME NEW b \in Browsers, Right(b) PROVE Priced' /\ HasWaited
  <2>1. PICK sessions : live' = [sessions |-> sessions, failures |-> 0, lockedUntil |-> 0,
                                 verifying |-> FALSE]
    BY <1>3 DEF Right
  <2>2. /\ checking' = [checking EXCEPT ![b] = Absent] /\ checking[b] # Absent
        /\ UNCHANGED <<clock, wrongAt>>
    BY <1>3 DEF Right
  <2>3. SignInTyped'
    BY <2>1, <2>2 DEF SignInTyped
  <2>4. OneAtATime'
    BY <2>2 DEF OneAtATime, SignInTyped
  <2>5. WaitIsOfLast' /\ HasWaited
    BY <2>1 DEF WaitIsOfLast, SignInTyped
  <2> QED BY <2>3, <2>4, <2>5
<1>4. ASSUME NEW token, Request(token) \/ Logout(token) PROVE Priced' /\ HasWaited
  <2>1. PICK sessions : live' = [live EXCEPT !.sessions = sessions]
    BY <1>4 DEF Request, Logout
  <2>2. UNCHANGED <<clock, checking, wrongAt>>
    BY <1>4 DEF Request, Logout
  <2>3. live' = [sessions |-> sessions, failures |-> live.failures,
                 lockedUntil |-> live.lockedUntil, verifying |-> live.verifying]
    BY <2>1 DEF SignInTyped
  <2>4. SignInTyped'
    BY <2>2, <2>3 DEF SignInTyped
  <2>5. live'.failures = live.failures /\ live'.lockedUntil = live.lockedUntil
        /\ live'.verifying = live.verifying
    BY <2>3
  <2>6. OneAtATime'
    BY <2>2, <2>5 DEF OneAtATime
  <2>7. WaitIsOfLast' /\ HasWaited
    BY <2>2, <2>5 DEF WaitIsOfLast, SignInTyped
  <2> QED BY <2>4, <2>6, <2>7
<1>5. ASSUME NEW asked, Restart(asked) PROVE Priced' /\ HasWaited
  BY <1>5 DEF Restart, NoOne, SignInTyped, OneAtATime, WaitIsOfLast
<1>6. CASE SetPassword \/ UNCHANGED sessionVars
  <2>1. UNCHANGED <<clock, live, checking, wrongAt>>
    BY <1>6 DEF SetPassword, sessionVars
  <2> QED BY <2>1 DEF SignInTyped, OneAtATime, WaitIsOfLast
<1>7. CASE TimePasses
  <2>1. clock' = clock + 1 /\ UNCHANGED <<live, checking, wrongAt>>
    BY <1>7 DEF TimePasses
  <2> QED BY <2>1 DEF SignInTyped, OneAtATime, WaitIsOfLast
<1> QED BY <1>1, <1>2, <1>3, <1>4, <1>5, <1>6, <1>7 DEF SessionsNext

(* Between two wrong answers that are counted lies the whole wait that the  *)
(* first one cost, whoever asks from however many browsers while the first  *)
(* answer is still being checked, for every base and every limit of the     *)
(* waits (Live::verifying, Auth::backoff).                                  *)
THEOREM EveryWrongAnswerWaits ==
  ASSUME WholeWaits
  PROVE  SessionsSpec => WrongAnswersWait
<1>1. SessionsInit => Priced
  BY BeginsUnpriced
<1>2. Priced /\ [SessionsNext]_sessionVars =>
        /\ Priced'
        /\ live'.failures > live.failures /\ live.failures > 0 =>
             clock >= wrongAt + Backoff(live.failures)
  BY StepsArePriced
<1> QED BY <1>1, <1>2, PTL DEF SessionsSpec, WrongAnswersWait

-----------------------------------------------------------------------------
(***************************************************************************)
(* That a password that is set is the one that is loaded, whatever file it *)
(* is written into.                                                        *)
(***************************************************************************)
(* A line is a header or an assignment, a blank one included. *)
IsLine(line) == line = Header(line.header) \/ line = Assignment(line.key, line.value)
IsText(text) ==
  /\ Len(text) \in Nat /\ DOMAIN text = 1..Len(text)
  /\ \A i \in DOMAIN text : IsLine(text[i])
NamesThere == "auth" # Absent /\ Absent \notin PairKeys

(* The section of a line is that of the last header before it, if any. *)
LEMMA GreatestOf ==
  ASSUME NEW i \in Nat, NEW S, S \subseteq 1..i, S # {}
  PROVE  \E m \in S : \A j \in S : j <= m
<1>0. \A j \in S : j \in Int /\ i - j \in Nat
  OBVIOUS
<1> DEFINE T == {i - j : j \in S}
<1>1. T \subseteq Nat /\ T # {}
  BY <1>0
<1>2. PICK d \in T : \A e \in T : d <= e
  <2> HIDE DEF T
  <2> QED BY <1>1, FirstOf
<1>3. PICK m \in S : d = i - m
  BY <1>2
<1>4. \A j \in S : i - m <= i - j
  BY <1>2, <1>3
<1> HIDE DEF T
<1>5. ASSUME NEW j \in S PROVE j <= m
  <2>1. j \in Int /\ m \in Int /\ i - m <= i - j
    BY <1>0, <1>3, <1>4
  <2> QED BY <2>1
<1> QED BY <1>5

LastHeader(text, i, j) ==
  /\ j \in 1..i /\ IsHeader(text[j])
  /\ \A k \in 1..i : IsHeader(text[k]) => k <= j

LEMMA SectionAt ==
  ASSUME NEW text, NEW i \in Nat, NEW j, LastHeader(text, i, j)
  PROVE  SectionOf(text, i) = text[j].header
<1> DEFINE before == {k \in 1..i : IsHeader(text[k])}
<1>1. before \subseteq Int /\ j \in before /\ \A k \in before : k <= j
  BY DEF LastHeader
<1>2. SectionOf(text, i) = text[CHOOSE k \in before : \A l \in before : l <= k].header
  BY <1>1 DEF SectionOf
<1> HIDE DEF before
<1>3. (CHOOSE k \in before : \A l \in before : l <= k) = j
  BY <1>1, GreatestIs
<1> QED BY <1>2, <1>3

LEMMA SectionNone ==
  ASSUME NEW text, NEW i \in Nat, \A k \in 1..i : ~IsHeader(text[k])
  PROVE  SectionOf(text, i) = Absent
BY DEF SectionOf

LEMMA HeaderBefore ==
  ASSUME NEW text, NEW i \in Nat, NEW k \in 1..i, IsHeader(text[k])
  PROVE  \E j : LastHeader(text, i, j)
<1> DEFINE before == {l \in 1..i : IsHeader(text[l])}
<1>1. before \subseteq 1..i /\ k \in before
  OBVIOUS
<1> HIDE DEF before
<1>2. PICK j \in before : \A l \in before : l <= j
  BY <1>1, GreatestOf
<1> QED BY <1>1, <1>2 DEF LastHeader, before

LEMMA SectionHeader ==
  ASSUME NEW text, NEW i \in Nat, SectionOf(text, i) # Absent
  PROVE  \E j : LastHeader(text, i, j) /\ SectionOf(text, i) = text[j].header
<1>1. PICK k \in 1..i : IsHeader(text[k])
  BY SectionNone
<1> QED BY <1>1, HeaderBefore, SectionAt

(* Lines that keep their headers keep their sections, from the first line or  *)
(* from a header on, however far they are moved.                              *)
LEMMA SectionStays ==
  ASSUME NEW text, NEW new, NEW i \in Nat,
         \A k \in 1..i : /\ IsHeader(text[k]) <=> IsHeader(new[k])
                         /\ IsHeader(text[k]) => text[k] = new[k]
  PROVE  SectionOf(new, i) = SectionOf(text, i)
<1>1. CASE \A k \in 1..i : ~IsHeader(text[k])
  BY <1>1, SectionNone
<1>2. CASE \E k \in 1..i : IsHeader(text[k])
  <2>1. PICK j : LastHeader(text, i, j)
    BY <1>2, HeaderBefore
  <2>2. LastHeader(new, i, j) /\ new[j] = text[j]
    BY <2>1 DEF LastHeader
  <2> QED BY <2>1, <2>2, SectionAt
<1> QED BY <1>1, <1>2

LEMMA SectionMoves ==
  ASSUME NEW text, NEW new, NEW i \in Nat, NEW m \in Nat, NEW c \in 1..i, IsHeader(text[c]),
         \A k \in c..i : /\ IsHeader(text[k]) <=> IsHeader(new[k + m])
                         /\ IsHeader(text[k]) => text[k] = new[k + m]
  PROVE  SectionOf(new, i + m) = SectionOf(text, i)
<1>1. PICK j : LastHeader(text, i, j)
  BY HeaderBefore
<1>2. j \in c..i /\ IsHeader(text[j])
  BY <1>1 DEF LastHeader
<1>3. ASSUME NEW k \in 1..(i + m), IsHeader(new[k])
      PROVE  k <= j + m
  <2>1. CASE k < c + m
    BY <1>2, <2>1
  <2>2. CASE ~(k < c + m)
    <3>1. k - m \in c..i /\ (k - m) + m = k
      BY <2>2
    <3>2. IsHeader(text[k - m])
      BY <1>3, <3>1
    <3>3. k - m <= j
      BY <1>1, <3>1, <3>2 DEF LastHeader
    <3> QED BY <1>2, <3>3
  <2> QED BY <2>1, <2>2
<1>4. LastHeader(new, i + m, j + m) /\ new[j + m] = text[j]
  BY <1>2, <1>3 DEF LastHeader
<1> QED BY <1>1, <1>4, SectionAt

(* The section goes on until the next header. *)
LEMMA SectionGoesOn ==
  ASSUME NEW text, NEW i \in Nat
  PROVE  SectionOf(text, i + 1) =
           IF IsHeader(text[i + 1]) THEN text[i + 1].header ELSE SectionOf(text, i)
<1>1. CASE IsHeader(text[i + 1])
  <2>1. LastHeader(text, i + 1, i + 1)
    BY <1>1 DEF LastHeader
  <2> QED BY <1>1, <2>1, SectionAt
<1>2. CASE ~IsHeader(text[i + 1]) /\ \A k \in 1..i : ~IsHeader(text[k])
  <2>1. \A k \in 1..(i + 1) : ~IsHeader(text[k])
    BY <1>2
  <2> QED BY <1>2, <2>1, SectionNone
<1>3. CASE ~IsHeader(text[i + 1]) /\ \E k \in 1..i : IsHeader(text[k])
  <2>1. PICK j : LastHeader(text, i, j)
    BY <1>3, HeaderBefore
  <2>2. LastHeader(text, i + 1, j)
    BY <1>3, <2>1 DEF LastHeader
  <2> QED BY <1>3, <2>1, <2>2, SectionAt
<1> QED BY <1>1, <1>2, <1>3

(* What a line of the text becomes, and what a new text has of an old one:    *)
(* every line at[k], rewritten, in its section, and what is added to "auth".  *)
Rewritten(text, k, v) ==
  IF InAuth(text, k) /\ text[k].key \in PairKeys THEN Assignment(text[k].key, v) ELSE text[k]

Added(new, text, v, i) ==
  /\ SectionOf(new, i) = "auth" /\ new[i].key \in PairKeys
  /\ new[i] = Assignment(new[i].key, v) /\ Values(text, new[i].key) = {}
Carries(new, text, v, at, extra) ==
  /\ \A k \in DOMAIN text : /\ at[k] \in DOMAIN new /\ new[at[k]] = Rewritten(text, k, v)
                            /\ SectionOf(new, at[k]) = SectionOf(text, k)
  /\ extra \subseteq DOMAIN new
  /\ \A i \in DOMAIN new : i \in extra \/ \E k \in DOMAIN text : i = at[k]
  /\ \A i \in extra : Added(new, text, v, i)
  /\ \A i, j \in extra : new[i].key = new[j].key => i = j
  /\ \A key \in PairKeys : Values(text, key) = {} => \E i \in extra : new[i].key = key

(* The section that is there, and the lines it is made of. *)
LEMMA RewrittenLines ==
  ASSUME NamesThere, NEW text, IsText(text), NEW k \in DOMAIN text, NEW v
  PROVE  LET l == Rewritten(text, k, v)
         IN  /\ IsHeader(l) <=> IsHeader(text[k])
             /\ IsHeader(text[k]) => l = text[k] /\ l.key = Absent
             /\ l.key = text[k].key
             /\ l # text[k] => InAuth(text, k) /\ text[k].key \in PairKeys
<1>1. IsLine(text[k])
  BY DEF IsText
<1>2. text[k] = Header(text[k].header) => text[k].key = Absent
  BY DEF Header
<1>3. text[k] = Assignment(text[k].key, text[k].value) => ~IsHeader(text[k])
  BY DEF Assignment, IsHeader
<1>4. IsHeader(text[k]) => text[k].key = Absent
  BY <1>1, <1>2, <1>3 DEF IsLine
<1>5. /\ Assignment(text[k].key, v).key = text[k].key
      /\ ~IsHeader(Assignment(text[k].key, v))
  BY DEF Assignment, IsHeader
<1> QED BY <1>4, <1>5 DEF Rewritten, InAuth

LEMMA CarriedParses ==
  ASSUME NamesThere, NEW text, IsText(text), Parses(text), NEW new, NEW v, NEW at, NEW extra,
         Carries(new, text, v, at, extra)
  PROVE  Parses(new)
<1>1. \A i \in extra : /\ ~IsHeader(new[i]) /\ new[i].key \in PairKeys
                       /\ SectionOf(new, i) = "auth" /\ Values(text, new[i].key) = {}
  <2>1. \A key : ~IsHeader(Assignment(key, v))
    BY DEF Assignment, IsHeader
  <2> QED BY <2>1 DEF Carries, Added
<1>2. \A k \in DOMAIN text :
        /\ IsHeader(new[at[k]]) <=> IsHeader(text[k])
        /\ IsHeader(text[k]) => new[at[k]] = text[k] /\ text[k].key = Absent
        /\ new[at[k]].key = text[k].key
        /\ SectionOf(new, at[k]) = SectionOf(text, k)
  BY RewrittenLines DEF Carries
<1>3. ASSUME NEW i \in DOMAIN new, NEW j \in DOMAIN new, i # j, IsHeader(new[i])
      PROVE  new[i] # new[j]
  <2> SUFFICES ASSUME new[i] = new[j] PROVE FALSE
    OBVIOUS
  <2>1. i \notin extra /\ j \notin extra /\ IsHeader(new[j])
    BY <1>1, <1>3
  <2>2. PICK k \in DOMAIN text : i = at[k]
    BY <2>1 DEF Carries
  <2>3. PICK l \in DOMAIN text : j = at[l]
    BY <2>1 DEF Carries
  <2>4. k # l /\ IsHeader(text[k]) /\ text[k] = text[l]
    BY <1>2, <1>3, <2>1, <2>2, <2>3
  <2> QED BY <2>4 DEF Parses
<1>4. ASSUME NEW i \in DOMAIN new, NEW j \in DOMAIN new, i # j, new[i].key # Absent,
             new[i].key = new[j].key
      PROVE  SectionOf(new, i) # SectionOf(new, j)
  <2>1. ASSUME NEW a \in DOMAIN new, NEW b \in DOMAIN new, a \in extra, b \notin extra,
               new[a].key = new[b].key
        PROVE  SectionOf(new, a) # SectionOf(new, b)
    <3>1. PICK l \in DOMAIN text : b = at[l]
      BY <2>1 DEF Carries
    <3>2. SectionOf(new, a) = "auth" /\ new[a].key \in PairKeys /\ Values(text, new[a].key) = {}
      BY <1>1, <2>1
    <3>3. text[l].key = new[a].key /\ ~IsHeader(text[l])
      BY <1>2, <2>1, <3>1, <3>2 DEF NamesThere
    <3>4. ~InAuth(text, l)
      BY <3>2, <3>3 DEF Values
    <3>5. SectionOf(text, l) # "auth"
      BY <3>3, <3>4 DEF InAuth
    <3> QED BY <1>2, <3>1, <3>2, <3>5
  <2>2. CASE i \in extra /\ j \in extra
    BY <1>4, <2>2 DEF Carries
  <2>3. CASE i \notin extra /\ j \notin extra
    <3>1. PICK k \in DOMAIN text : i = at[k]
      BY <2>3 DEF Carries
    <3>2. PICK l \in DOMAIN text : j = at[l]
      BY <2>3 DEF Carries
    <3>3. k # l /\ text[k].key # Absent /\ text[k].key = text[l].key
      BY <1>2, <1>4, <3>1, <3>2
    <3> QED BY <1>2, <3>1, <3>2, <3>3 DEF Parses
  <2> QED BY <1>4, <2>1, <2>2, <2>3
<1> QED BY <1>3, <1>4 DEF Parses

LEMMA CarriedValues ==
  ASSUME NamesThere, NEW text, IsText(text), NEW new, NEW v, NEW at, NEW extra,
         Carries(new, text, v, at, extra), NEW key \in PairKeys
  PROVE  Values(new, key) = {v}
<1>1. ASSUME NEW i \in DOMAIN new, InAuth(new, i), new[i].key = key
      PROVE  new[i].value = v
  <2>1. CASE i \in extra
    <3>1. new[i] = Assignment(new[i].key, v)
      BY <2>1 DEF Carries, Added
    <3> QED BY <3>1 DEF Assignment
  <2>2. CASE i \notin extra
    <3>1. PICK k \in DOMAIN text : i = at[k]
      BY <2>2 DEF Carries
    <3>2. /\ new[i] = Rewritten(text, k, v) /\ SectionOf(new, i) = SectionOf(text, k)
      BY <3>1 DEF Carries
    <3>3. /\ IsHeader(new[i]) <=> IsHeader(text[k])
          /\ new[i].key = text[k].key
      BY <3>2, RewrittenLines
    <3>4. InAuth(text, k) /\ text[k].key \in PairKeys
      BY <1>1, <3>2, <3>3 DEF InAuth
    <3>5. new[i] = Assignment(text[k].key, v)
      BY <3>2, <3>4 DEF Rewritten
    <3> QED BY <3>5 DEF Assignment
  <2> QED BY <2>1, <2>2
<1>2. \E i \in DOMAIN new : InAuth(new, i) /\ new[i].key = key
  <2>1. CASE Values(text, key) = {}
    <3>1. PICK i \in extra : new[i].key = key
      BY <2>1 DEF Carries
    <3>2. i \in DOMAIN new /\ SectionOf(new, i) = "auth" /\ new[i] = Assignment(new[i].key, v)
      BY <3>1 DEF Carries, Added
    <3>3. ~IsHeader(new[i])
      BY <3>2 DEF Assignment, IsHeader
    <3> QED BY <3>1, <3>2, <3>3 DEF InAuth
  <2>2. CASE Values(text, key) # {}
    <3>1. PICK k \in DOMAIN text : InAuth(text, k) /\ text[k].key = key
      BY <2>2 DEF Values
    <3>2. /\ at[k] \in DOMAIN new /\ new[at[k]] = Rewritten(text, k, v)
          /\ SectionOf(new, at[k]) = SectionOf(text, k)
      BY DEF Carries
    <3>3. /\ IsHeader(new[at[k]]) <=> IsHeader(text[k])
          /\ new[at[k]].key = text[k].key
      BY <3>2, RewrittenLines
    <3> QED BY <3>1, <3>2, <3>3 DEF InAuth
  <2> QED BY <2>1, <2>2
<1> QED BY <1>1, <1>2 DEF Values

LEMMA CarriedLines ==
  ASSUME NamesThere, NEW text, IsText(text), Parses(text), HasSection(text),
         NEW new, NEW v, NEW at, NEW extra, Carries(new, text, v, at, extra)
  PROVE  /\ LoadedPassword(new) = v
         /\ Others(new) = Others(text)
<1>1. HasSection(new)
  <2>1. PICK k \in DOMAIN text : text[k] = Header("auth")
    BY DEF HasSection
  <2>2. IsHeader(text[k])
    BY <2>1 DEF Header, IsHeader, NamesThere
  <2>3. at[k] \in DOMAIN new /\ new[at[k]] = Rewritten(text, k, v)
    BY DEF Carries
  <2>4. new[at[k]] = Header("auth")
    BY <2>1, <2>2, <2>3 DEF Rewritten, InAuth
  <2> QED BY <2>3, <2>4 DEF HasSection
<1>2. Complete(new) /\ Values(new, "hash") = {v}
  BY CarriedValues DEF Complete, PairKeys
<1>3. LoadedPassword(new) = v
  BY <1>1, <1>2, CarriedParses DEF LoadedPassword
<1>4. \A k \in DOMAIN text :
        /\ at[k] \in DOMAIN new /\ SectionOf(new, at[k]) = SectionOf(text, k)
        /\ new[at[k]] # text[k] => InAuth(text, k) /\ text[k].key \in PairKeys
        /\ IsHeader(new[at[k]]) <=> IsHeader(text[k])
        /\ new[at[k]].key = text[k].key
  BY RewrittenLines DEF Carries
<1>5. \A k \in DOMAIN text : InAuth(new, at[k]) <=> InAuth(text, k)
  BY <1>4 DEF InAuth
<1>6. \A i \in extra : InAuth(new, i) /\ new[i].key \in PairKeys
  <2>1. \A key : ~IsHeader(Assignment(key, v))
    BY DEF Assignment, IsHeader
  <2> QED BY <2>1 DEF Carries, Added, InAuth
<1>7. \A i \in DOMAIN new : i \in extra \/ \E k \in DOMAIN text : i = at[k]
  BY DEF Carries
<1> DEFINE Other(t, i) == ~(InAuth(t, i) /\ t[i].key \in PairKeys)
                          /\ t[i] \notin {Blank, Header("auth")}
<1>8. \A t : Others(t) = {<<SectionOf(t, i), t[i]>> : i \in {j \in DOMAIN t : Other(t, j)}}
  BY DEF Others
<1>9. \A k \in DOMAIN text : /\ Other(text, k) <=> Other(new, at[k])
                             /\ Other(text, k) => new[at[k]] = text[k]
  BY <1>4, <1>5
<1>10. \A i \in DOMAIN new : Other(new, i) => \E k \in DOMAIN text : i = at[k]
  BY <1>6, <1>7
<1> HIDE DEF Other
<1>11. ASSUME NEW x \in Others(new) PROVE x \in Others(text)
  <2>1. PICK i \in DOMAIN new : Other(new, i) /\ x = <<SectionOf(new, i), new[i]>>
    BY <1>8
  <2>2. PICK k \in DOMAIN text : i = at[k]
    BY <1>10, <2>1
  <2> QED BY <1>4, <1>8, <1>9, <2>1, <2>2
<1>12. ASSUME NEW x \in Others(text) PROVE x \in Others(new)
  <2>1. PICK k \in DOMAIN text : Other(text, k) /\ x = <<SectionOf(text, k), text[k]>>
    BY <1>8
  <2> QED BY <1>4, <1>8, <1>9, <2>1
<1> QED BY <1>3, <1>11, <1>12

IsConcat(u, S, s, t, p, q) ==
  /\ u \in Seq(S) /\ Len(u) = p + q /\ DOMAIN u = 1..(p + q)
  /\ \A i \in 1..p : u[i] = s[i]
  /\ \A i \in 1..q : u[p + i] = t[i]

LEMMA Concatenated ==
  ASSUME NEW S, NEW s \in Seq(S), NEW t \in Seq(S), NEW p \in Nat, NEW q \in Nat,
         Len(s) = p, Len(t) = q
  PROVE  IsConcat(s \o t, S, s, t, p, q)
<1>1. s \o t \in Seq(S) /\ Len(s \o t) = p + q
      /\ \A i \in 1..(p + q) : (s \o t)[i] = IF i <= p THEN s[i] ELSE t[i - p]
  BY ConcatProperties
<1>2. DOMAIN (s \o t) = 1..(p + q)
  BY <1>1
<1>3. \A i \in 1..p : i \in 1..(p + q) /\ i <= p
  OBVIOUS
<1>4. \A i \in 1..q : p + i \in 1..(p + q) /\ ~(p + i <= p) /\ (p + i) - p = i
  OBVIOUS
<1> QED BY <1>1, <1>2, <1>3, <1>4 DEF IsConcat

LEMMA AppendsOne ==
  ASSUME NEW a, NEW b, NEW c
  PROVE  <<a>> \o <<b>> = <<a, b>> /\ <<a, b>> \o <<c>> = <<a, b, c>>
<1>1. <<a>> \in Seq({a, b, c}) /\ <<a, b>> \in Seq({a, b, c})
  OBVIOUS
<1>2. <<a>> \o <<b>> = Append(<<a>>, b) /\ <<a, b>> \o <<c>> = Append(<<a, b>>, c)
  BY <1>1, AppendIsConcat
<1> DEFINE S == {a, b, c}
<1>3. Append(<<a>>, b) = <<a, b>>
  <2>1. /\ Append(<<a>>, b) \in Seq(S) /\ Len(Append(<<a>>, b)) = 2
        /\ \A i \in 1..2 : Append(<<a>>, b)[i] = <<a, b>>[i]
    BY <1>1
  <2>2. <<a, b>> \in Seq(S) /\ Len(<<a, b>>) = 2
    OBVIOUS
  <2> HIDE DEF S
  <2> QED BY <2>1, <2>2, SeqEqual
<1>4. Append(<<a, b>>, c) = <<a, b, c>>
  <2>1. /\ Append(<<a, b>>, c) \in Seq(S) /\ Len(Append(<<a, b>>, c)) = 3
        /\ \A i \in 1..3 : Append(<<a, b>>, c)[i] = <<a, b, c>>[i]
    BY <1>1
  <2>2. <<a, b, c>> \in Seq(S) /\ Len(<<a, b, c>>) = 3
    OBVIOUS
  <2> HIDE DEF S
  <2> QED BY <2>1, <2>2, SeqEqual
<1> QED BY <1>2, <1>3, <1>4, Zenon

IsSpliced(new, S, kept, more, n, m, e) ==
  /\ new \in Seq(S) /\ DOMAIN new = 1..(n + m)
  /\ \A i \in 1..e : new[i] = kept[i]
  /\ \A q \in 1..m : new[e + q] = more[q]
  /\ \A i \in (e + 1)..n : new[i + m] = kept[i]

LEMMA Spliced ==
  ASSUME NEW S, NEW kept \in Seq(S), NEW more \in Seq(S), NEW n \in Nat, NEW m \in Nat,
         Len(kept) = n, Len(more) = m, NEW e \in 1..n
  PROVE  IsSpliced(SubSeq(kept, 1, e) \o more \o SubSeq(kept, e + 1, Len(kept)),
                   S, kept, more, n, m, e)
<1> DEFINE front == SubSeq(kept, 1, e)
           back == SubSeq(kept, e + 1, n)
           new == (front \o more) \o back
<1>1. front \in Seq(S) /\ Len(front) = e /\ \A i \in 1..e : front[i] = kept[i]
  OBVIOUS
<1>2. back \in Seq(S) /\ Len(back) = n - e /\ \A i \in 1..(n - e) : back[i] = kept[i + e]
  OBVIOUS
<1> HIDE DEF front, back
<1> DEFINE begun == front \o more
<1>14. e \in Nat /\ e + m \in Nat /\ n - e \in Nat
  OBVIOUS
<1>13. IsConcat(begun, S, front, more, e, m)
  BY <1>1, <1>14, Concatenated, Zenon
<1> HIDE DEF begun
<1>3. /\ begun \in Seq(S) /\ Len(begun) = e + m
      /\ \A i \in 1..e : begun[i] = front[i]
      /\ \A q \in 1..m : begun[e + q] = more[q]
  BY <1>13 DEF IsConcat
<1>15. IsConcat(begun \o back, S, begun, back, e + m, n - e)
  BY <1>2, <1>3, <1>14, Concatenated, Zenon
<1>4. /\ begun \o back \in Seq(S) /\ Len(begun \o back) = (e + m) + (n - e)
      /\ \A i \in 1..(e + m) : (begun \o back)[i] = begun[i]
      /\ \A i \in 1..(n - e) : (begun \o back)[(e + m) + i] = back[i]
  BY <1>15 DEF IsConcat
<1>5. new = begun \o back
  BY DEF begun
<1> HIDE DEF new
<1>6. /\ new \in Seq(S) /\ Len(new) = n + m
      /\ \A i \in 1..(e + m) : new[i] = begun[i]
      /\ \A i \in 1..(n - e) : new[(e + m) + i] = back[i]
  <2>1. (e + m) + (n - e) = n + m
    OBVIOUS
  <2> QED BY <1>4, <1>5, <2>1, Zenon
<1>7. DOMAIN new = 1..(n + m)
  BY <1>6
<1>8. \A i \in 1..e : new[i] = kept[i]
  BY <1>1, <1>3, <1>6
<1>9. \A q \in 1..m : new[e + q] = more[q]
  <2>1. \A q \in 1..m : e + q \in 1..(e + m)
    OBVIOUS
  <2> QED BY <1>3, <1>6, <2>1
<1>10. ASSUME NEW i \in (e + 1)..n PROVE new[i + m] = kept[i]
  <2>1. i - e \in 1..(n - e) /\ (e + m) + (i - e) = i + m /\ (i - e) + e = i
    OBVIOUS
  <2>2. new[(e + m) + (i - e)] = back[i - e] /\ back[i - e] = kept[(i - e) + e]
    BY <1>2, <1>6, <2>1
  <2> QED BY <2>1, <2>2
<1> QED BY <1>6, <1>7, <1>8, <1>9, <1>10 DEF IsSpliced, new, front, back

(* The section that is there ends somewhere, and where the file is TOML it    *)
(* ends once: after it comes another, or nothing.                             *)
LEMMA EndOfAuthThere ==
  ASSUME NamesThere, NEW text, IsText(text), HasSection(text), NEW n, n = Len(text)
  PROVE  LET e == EndOfAuth(text)
         IN  /\ e \in 1..n /\ SectionOf(text, e) = "auth"
             /\ e = n \/ SectionOf(text, e + 1) # "auth"
<1>1. n \in Nat /\ DOMAIN text = 1..n
  BY DEF IsText
<1>2. PICK h \in 1..n : text[h] = Header("auth")
  BY <1>1 DEF HasSection
<1>3. LastHeader(text, h, h) /\ text[h].header = "auth"
  BY <1>2 DEF LastHeader, Header, IsHeader, NamesThere
<1>4. SectionOf(text, h) = "auth"
  BY <1>3, SectionAt
<1> DEFINE Ends(i) == SectionOf(text, i) = "auth" /\ (i = n \/ SectionOf(text, i + 1) # "auth")
<1>5. \E i \in 1..n : Ends(i)
  <2> DEFINE T == {i \in 1..n : SectionOf(text, i) = "auth"}
  <2>1. T \subseteq 1..n /\ h \in T
    BY <1>4
  <2>2. PICK i \in T : \A j \in T : j <= i
    <3> HIDE DEF T
    <3> QED BY <1>1, <2>1, GreatestOf
  <2>3. i = n \/ i + 1 \notin T
    BY <2>2
  <2>4. i \in 1..n /\ Ends(i)
    BY <1>1, <2>2, <2>3
  <2> QED BY <2>4
<1> DEFINE e == EndOfAuth(text)
<1>6. e = CHOOSE i \in 1..n : Ends(i)
  BY <1>1 DEF EndOfAuth
<1> HIDE DEF e
<1>7. e \in 1..n /\ Ends(e)
  <2> HIDE DEF Ends
  <2> QED BY <1>5, <1>6, Zenon
<1> QED BY <1>7 DEF e

LEMMA EndOfAuthIs ==
  ASSUME NamesThere, NEW text, IsText(text), Parses(text), HasSection(text),
         NEW n, n = Len(text)
  PROVE  LET e == EndOfAuth(text)
         IN  /\ e \in 1..n /\ SectionOf(text, e) = "auth"
             /\ e < n => IsHeader(text[e + 1])
             /\ \A i \in (e + 1)..n : SectionOf(text, i) # "auth"
<1>1. n \in Nat /\ DOMAIN text = 1..n
  BY DEF IsText
<1> DEFINE e == EndOfAuth(text)
<1>7. /\ e \in 1..n /\ SectionOf(text, e) = "auth"
      /\ e = n \/ SectionOf(text, e + 1) # "auth"
  BY EndOfAuthThere
<1> HIDE DEF e
<1>8. PICK j : LastHeader(text, e, j) /\ text[j].header = "auth"
  BY <1>7, SectionHeader DEF NamesThere
<1>9. ASSUME NEW k \in 1..n, text[k].header = "auth"
      PROVE  k = j
  <2>1. j \in 1..n
    BY <1>7, <1>8 DEF LastHeader
  <2>2. IsHeader(text[k]) /\ IsLine(text[k]) /\ IsLine(text[j])
    BY <1>1, <1>9, <2>1 DEF IsText, IsHeader, NamesThere
  <2>3. text[k] = Header("auth") /\ text[j] = Header("auth")
    BY <1>8, <1>9, <2>2 DEF IsLine, Assignment, NamesThere
  <2> QED BY <1>1, <2>1, <2>2, <2>3 DEF Parses
<1>10. e < n => IsHeader(text[e + 1])
  BY <1>7, SectionGoesOn
<1>11. ASSUME NEW i \in (e + 1)..n, SectionOf(text, i) = "auth"
       PROVE  FALSE
  <2>1. i \in Nat /\ i \in 1..n
    BY <1>7
  <2>2. PICK k : LastHeader(text, i, k) /\ text[k].header = "auth"
    BY <1>11, <2>1, SectionHeader DEF NamesThere
  <2>3. k \in 1..n /\ k = j
    BY <1>9, <2>1, <2>2 DEF LastHeader
  <2>4. e + 1 \in 1..i /\ IsHeader(text[e + 1])
    BY <1>7, <1>10
  <2>5. e + 1 <= k /\ j <= e
    BY <1>8, <2>2, <2>4 DEF LastHeader
  <2> QED BY <1>7, <2>3, <2>5
<1> QED BY <1>7, <1>10, <1>11 DEF e

(* What is missing is added once each. *)
KeyLines(v) == {Assignment(key, v) : key \in PairKeys}
IsMissing(added, text, v) ==
  /\ added \in Seq(KeyLines(v))
  /\ \A q \in DOMAIN added : Values(text, added[q].key) = {}
  /\ \A q, r \in DOMAIN added : added[q].key = added[r].key => q = r
  /\ \A key \in PairKeys : Values(text, key) = {} => \E q \in DOMAIN added : added[q].key = key

LEMMA MissingIs ==
  ASSUME NEW text, NEW v
  PROVE  IsMissing(Missing(text, Pairs(v)), text, v)
<1> DEFINE a == Assignment("pbkdf2_iterations", v)
           b == Assignment("salt", v)
           c == Assignment("hash", v)
           lines == KeyLines(v)
           without(key) == Values(text, key) = {}
           A == IF without("pbkdf2_iterations") THEN <<a>> ELSE << >>
           B == IF without("salt") THEN <<b>> ELSE << >>
           C == IF without("hash") THEN <<c>> ELSE << >>
<1>1. /\ a \in lines /\ b \in lines /\ c \in lines
      /\ a.key = "pbkdf2_iterations" /\ b.key = "salt" /\ c.key = "hash"
  BY DEF KeyLines, PairKeys, Assignment
<1>2. Missing(text, Pairs(v)) = A \o B \o C
  BY <1>1 DEF Missing, IfMissing, Pairs
<1> DEFINE added == Missing(text, Pairs(v))
<1> HIDE DEF a, b, c, lines, without
<1>3. /\ A \o B = IF without("pbkdf2_iterations") THEN IF without("salt") THEN <<a, b>> ELSE <<a>>
                 ELSE IF without("salt") THEN <<b>> ELSE << >>
  <2>1. <<a>> \o <<b>> = <<a, b>>
    BY AppendsOne
  <2>2. <<a>> \o << >> = <<a>> /\ << >> \o <<b>> = <<b>> /\ << >> \o << >> = << >>
    OBVIOUS
  <2> QED BY <2>1, <2>2
<1>4. \A s \in {<<a, b>>, <<a>>, <<b>>, << >>} : s \o << >> = s
  OBVIOUS
<1>5. <<b>> \o <<c>> = <<b, c>> /\ <<a>> \o <<c>> = <<a, c>> /\ <<a, b>> \o <<c>> = <<a, b, c>>
  BY AppendsOne
<1> DEFINE AB == A \o B
<1> HIDE DEF A, B, C, AB
<1>11. without("pbkdf2_iterations") /\ without("salt") /\ without("hash") =>
         added = <<a, b, c>>
  BY <1>2, <1>3, <1>4, <1>5 DEF AB, C
<1>12. without("pbkdf2_iterations") /\ without("salt") /\ ~without("hash") =>
         added = <<a, b>>
  BY <1>2, <1>3, <1>4, <1>5 DEF AB, C
<1>13. without("pbkdf2_iterations") /\ ~without("salt") /\ without("hash") =>
         added = <<a, c>>
  BY <1>2, <1>3, <1>4, <1>5 DEF AB, C
<1>14. without("pbkdf2_iterations") /\ ~without("salt") /\ ~without("hash") =>
         added = <<a>>
  BY <1>2, <1>3, <1>4, <1>5 DEF AB, C
<1>15. ~without("pbkdf2_iterations") /\ without("salt") /\ without("hash") =>
         added = <<b, c>>
  BY <1>2, <1>3, <1>4, <1>5 DEF AB, C
<1>16. ~without("pbkdf2_iterations") /\ without("salt") /\ ~without("hash") =>
         added = <<b>>
  BY <1>2, <1>3, <1>4, <1>5 DEF AB, C
<1>17. ~without("pbkdf2_iterations") /\ ~without("salt") /\ without("hash") =>
         added = <<c>>
  BY <1>2, <1>3, <1>4, <1>5 DEF AB, C
<1>18. ~without("pbkdf2_iterations") /\ ~without("salt") /\ ~without("hash") =>
         added = << >>
  BY <1>2, <1>3, <1>4, <1>5 DEF AB, C
<1> HIDE DEF added
<1>6. /\ added \in Seq(lines)
      /\ \A q \in DOMAIN added : without(added[q].key)
      /\ \A q, r \in DOMAIN added : added[q].key = added[r].key => q = r
      /\ \A key \in PairKeys : without(key) => \E q \in DOMAIN added : added[q].key = key
  <2>1. CASE without("pbkdf2_iterations") /\ without("salt") /\ without("hash")
    <3>1. added = <<a, b, c>>
      BY <1>11, <2>1
    <3> QED BY <1>1, <2>1, <3>1 DEF PairKeys
  <2>2. CASE without("pbkdf2_iterations") /\ without("salt") /\ ~without("hash")
    <3>1. added = <<a, b>>
      BY <1>12, <2>2
    <3> QED BY <1>1, <2>2, <3>1 DEF PairKeys
  <2>3. CASE without("pbkdf2_iterations") /\ ~without("salt") /\ without("hash")
    <3>1. added = <<a, c>>
      BY <1>13, <2>3
    <3> QED BY <1>1, <2>3, <3>1 DEF PairKeys
  <2>4. CASE without("pbkdf2_iterations") /\ ~without("salt") /\ ~without("hash")
    <3>1. added = <<a>>
      BY <1>14, <2>4
    <3> QED BY <1>1, <2>4, <3>1 DEF PairKeys
  <2>5. CASE ~without("pbkdf2_iterations") /\ without("salt") /\ without("hash")
    <3>1. added = <<b, c>>
      BY <1>15, <2>5
    <3> QED BY <1>1, <2>5, <3>1 DEF PairKeys
  <2>6. CASE ~without("pbkdf2_iterations") /\ without("salt") /\ ~without("hash")
    <3>1. added = <<b>>
      BY <1>16, <2>6
    <3> QED BY <1>1, <2>6, <3>1 DEF PairKeys
  <2>7. CASE ~without("pbkdf2_iterations") /\ ~without("salt") /\ without("hash")
    <3>1. added = <<c>>
      BY <1>17, <2>7
    <3> QED BY <1>1, <2>7, <3>1 DEF PairKeys
  <2>8. CASE ~without("pbkdf2_iterations") /\ ~without("salt") /\ ~without("hash")
    <3>1. added = << >>
      BY <1>18, <2>8
    <3> QED BY <1>1, <2>8, <3>1 DEF PairKeys
  <2> QED BY <2>1, <2>2, <2>3, <2>4, <2>5, <2>6, <2>7, <2>8
<1> QED BY <1>6 DEF IsMissing, added, without, lines

LEMMA ReplacedIs ==
  ASSUME NEW S, NEW text \in Seq(S), NEW v, KeyLines(v) \subseteq S
  PROVE  /\ Replaced(text, Pairs(v)) \in Seq(S)
         /\ Len(Replaced(text, Pairs(v))) = Len(text)
         /\ \A i \in DOMAIN text : Replaced(text, Pairs(v))[i] = Rewritten(text, i, v)
<1> DEFINE lines == Range(Pairs(v))
<1>1. lines = KeyLines(v)
  <2>1. Pairs(v) = <<Assignment("pbkdf2_iterations", v), Assignment("salt", v),
                     Assignment("hash", v)>>
    BY DEF Pairs
  <2>2. DOMAIN Pairs(v) = {1, 2, 3}
    BY <2>1
  <2>3. lines = {Pairs(v)[1], Pairs(v)[2], Pairs(v)[3]}
    BY <2>2 DEF Range
  <2> QED BY <2>1, <2>3 DEF KeyLines, PairKeys
<1>2. \A key : (\E p \in lines : p.key = key) <=> key \in PairKeys
  <2>1. \A key \in PairKeys : Assignment(key, v) \in lines /\ Assignment(key, v).key = key
    BY <1>1 DEF KeyLines, Assignment
  <2>2. \A p \in lines : p.key \in PairKeys
    BY <1>1 DEF KeyLines, Assignment
  <2> HIDE DEF lines
  <2> QED BY <2>1, <2>2
<1>3. \A key \in PairKeys : (CHOOSE p \in lines : p.key = key) = Assignment(key, v)
  <2> SUFFICES ASSUME NEW key \in PairKeys
               PROVE  (CHOOSE p \in lines : p.key = key) = Assignment(key, v)
    OBVIOUS
  <2>1. Assignment(key, v) \in lines /\ Assignment(key, v).key = key
    BY <1>1 DEF KeyLines, Assignment
  <2>2. \A p \in lines : p.key = key => p = Assignment(key, v)
    BY <1>1 DEF KeyLines, Assignment
  <2> HIDE DEF lines
  <2> QED BY <2>1, <2>2
<1> HIDE DEF lines
<1>4. Replaced(text, Pairs(v)) =
        [i \in DOMAIN text |->
           IF InAuth(text, i) /\ \E p \in lines : p.key = text[i].key
           THEN CHOOSE p \in lines : p.key = text[i].key ELSE text[i]]
  BY DEF Replaced, lines
<1>5. \A i \in DOMAIN text : Replaced(text, Pairs(v))[i] = Rewritten(text, i, v)
  BY <1>2, <1>3, <1>4 DEF Rewritten
<1>6. PICK n \in Nat : n = Len(text) /\ DOMAIN text = 1..n
  OBVIOUS
<1>7. \A i \in 1..n : Rewritten(text, i, v) \in S
  BY <1>6, <1>1 DEF Rewritten, KeyLines
<1>8. DOMAIN Replaced(text, Pairs(v)) = 1..n
  BY <1>4, <1>6
<1> DEFINE kept == Replaced(text, Pairs(v))
<1>9. kept = [i \in 1..n |-> kept[i]] /\ \A i \in 1..n : kept[i] \in S
  BY <1>4, <1>5, <1>6, <1>7
<1> HIDE DEF kept
<1>10. kept \in [1..n -> S]
  BY <1>9
<1>11. kept \in Seq(S) /\ Len(kept) = n
  BY <1>6, <1>8, <1>10 DEF kept
<1> QED BY <1>5, <1>6, <1>11 DEF kept

LEMMA LinesMakeText ==
  ASSUME NEW S, \A l \in S : IsLine(l), NEW text \in Seq(S)
  PROVE  IsText(text)
BY DEF IsText

(* A section that is there. *)
LEMMA KeysReplaced ==
  ASSUME NamesThere, NEW v, NEW S, \A l \in S : IsLine(l), KeyLines(v) \subseteq S,
         NEW text \in Seq(S), Parses(text), HasSection(text)
  PROVE  LET new == SetSectionKeys(text, Pairs(v))
         IN  new \in Seq(S) /\ LoadedPassword(new) = v /\ Others(new) = Others(text)
<1> DEFINE kept == Replaced(text, Pairs(v))
           more == Missing(text, Pairs(v))
           e == EndOfAuth(text)
           new == SubSeq(kept, 1, e) \o more \o SubSeq(kept, e + 1, Len(kept))
<1>1. IsText(text)
  BY LinesMakeText
<1>2. PICK n \in Nat : Len(text) = n /\ DOMAIN text = 1..n
  OBVIOUS
<1>3. /\ kept \in Seq(S) /\ Len(kept) = n
      /\ \A i \in 1..n : kept[i] = Rewritten(text, i, v)
  BY <1>2, ReplacedIs
<1>4. IsMissing(more, text, v)
  BY MissingIs
<1>5. PICK m \in Nat : Len(more) = m /\ DOMAIN more = 1..m /\ more \in Seq(S)
  <2>1. more \in Seq(KeyLines(v))
    BY <1>4 DEF IsMissing
  <2>2. more \in Seq(S)
    BY <2>1, SeqMonotonic
  <2> HIDE DEF more
  <2> QED BY <2>2
<1>6. /\ e \in 1..n /\ SectionOf(text, e) = "auth"
      /\ e < n => IsHeader(text[e + 1])
  BY <1>1, <1>2, EndOfAuthIs
<1>7. SetSectionKeys(text, Pairs(v)) = new
  BY <1>2, <1>3 DEF SetSectionKeys
<1> HIDE DEF kept, more, e
<1>8. /\ new \in Seq(S) /\ DOMAIN new = 1..(n + m)
      /\ \A i \in 1..e : new[i] = kept[i]
      /\ \A q \in 1..m : new[e + q] = more[q]
      /\ \A i \in (e + 1)..n : new[i + m] = kept[i]
  <2>1. IsSpliced(new, S, kept, more, n, m, e)
    BY <1>3, <1>5, <1>6, Spliced
  <2> HIDE DEF new
  <2> QED BY <2>1 DEF IsSpliced
<1> HIDE DEF new
<1>9. \A i \in 1..n : /\ IsHeader(kept[i]) <=> IsHeader(text[i])
                      /\ IsHeader(text[i]) => kept[i] = text[i]
  BY <1>1, <1>2, <1>3, RewrittenLines
<1>10. ASSUME NEW i \in 1..e PROVE SectionOf(new, i) = SectionOf(text, i)
  <2>1. i \in Nat /\ \A k \in 1..i : k \in 1..e /\ k \in 1..n
    BY <1>6
  <2>2. \A k \in 1..i : /\ IsHeader(text[k]) <=> IsHeader(new[k])
                        /\ IsHeader(text[k]) => text[k] = new[k]
    BY <1>8, <1>9, <2>1
  <2> QED BY <2>1, <2>2, SectionStays
<1>11. ASSUME NEW i \in (e + 1)..n PROVE SectionOf(new, i + m) = SectionOf(text, i)
  <2>1. i \in Nat /\ e + 1 \in 1..i /\ e < n
    BY <1>6
  <2>2. \A k \in (e + 1)..i : k \in (e + 1)..n /\ k \in 1..n
    BY <1>6
  <2>3. \A k \in (e + 1)..i : /\ IsHeader(text[k]) <=> IsHeader(new[k + m])
                              /\ IsHeader(text[k]) => text[k] = new[k + m]
    BY <1>8, <1>9, <2>2
  <2> QED BY <1>6, <2>1, <2>3, SectionMoves
<1>12. ASSUME NEW q \in 1..m
       PROVE  /\ more[q] = Assignment(more[q].key, v) /\ more[q].key \in PairKeys
              /\ ~IsHeader(more[q])
  <2>1. more[q] \in KeyLines(v)
    BY <1>4, <1>5 DEF IsMissing
  <2> QED BY <2>1 DEF KeyLines, Assignment, IsHeader
<1>13. ASSUME NEW q \in 1..m PROVE SectionOf(new, e + q) = "auth"
  <2>1. e + q \in Nat /\ e \in Nat
    BY <1>6
  <2>2. PICK j : LastHeader(text, e, j) /\ text[j].header = "auth"
    BY <1>6, <2>1, SectionHeader DEF NamesThere
  <2>3. j \in 1..e /\ j \in 1..n /\ IsHeader(text[j])
    BY <1>6, <2>2 DEF LastHeader
  <2>4. new[j] = text[j]
    BY <1>8, <1>9, <2>3
  <2>5. ASSUME NEW k \in 1..(e + q), IsHeader(new[k]) PROVE k <= j
    <3>1. CASE k \in 1..e
      <4>1. IsHeader(text[k])
        BY <1>6, <1>8, <1>9, <2>5, <3>1
      <4> QED BY <2>2, <3>1, <4>1 DEF LastHeader
    <3>2. CASE k \notin 1..e
      <4>1. k - e \in 1..m /\ e + (k - e) = k
        BY <1>6, <3>2
      <4>2. new[k] = more[k - e]
        BY <1>8, <4>1
      <4> QED BY <1>12, <2>5, <4>1, <4>2
    <3> QED BY <3>1, <3>2
  <2>6. LastHeader(new, e + q, j)
    BY <1>6, <2>3, <2>4, <2>5 DEF LastHeader
  <2> QED BY <2>1, <2>2, <2>4, <2>6, SectionAt
<1> DEFINE at == [k \in 1..n |-> IF k <= e THEN k ELSE k + m]
           extra == {e + q : q \in 1..m}
<1>14. \A k \in 1..n : /\ k <= e => k \in 1..e /\ at[k] = k
                       /\ ~(k <= e) => k \in (e + 1)..n /\ at[k] = k + m
                       /\ at[k] \in 1..(n + m)
  BY <1>6
<1>15. \A q \in 1..m : e + q \in 1..(n + m)
  BY <1>6
<1>16. \A i \in 1..(n + m) : i \in extra \/ \E k \in 1..n : i = at[k]
  <2> SUFFICES ASSUME NEW i \in 1..(n + m), ~\E q \in 1..m : i = e + q
               PROVE  \E k \in 1..n : i = at[k]
    OBVIOUS
  <2>1. CASE i <= e
    <3>1. i \in 1..n
      BY <1>6, <2>1
    <3> QED BY <1>14, <2>1, <3>1
  <2>2. CASE ~(i <= e)
    <3>1. i - e \notin 1..m
      BY <1>6
    <3>2. i - m \in (e + 1)..n /\ i - m \in 1..n /\ ~(i - m <= e) /\ (i - m) + m = i
      BY <1>6, <2>2, <3>1
    <3> QED BY <1>14, <3>2
  <2> QED BY <2>1, <2>2
<1> HIDE DEF at
<1>17. \A k \in 1..n : /\ at[k] \in DOMAIN new /\ new[at[k]] = Rewritten(text, k, v)
                       /\ SectionOf(new, at[k]) = SectionOf(text, k)
  BY <1>3, <1>8, <1>10, <1>11, <1>14
<1>18. \A i \in extra : Added(new, text, v, i)
  <2> SUFFICES ASSUME NEW q \in 1..m PROVE Added(new, text, v, e + q)
    OBVIOUS
  <2>1. new[e + q] = more[q] /\ Values(text, more[q].key) = {}
    BY <1>4, <1>5, <1>8 DEF IsMissing
  <2> QED BY <1>12, <1>13, <2>1 DEF Added
<1>19. \A i, j \in extra : new[i].key = new[j].key => i = j
  <2> SUFFICES ASSUME NEW q \in 1..m, NEW r \in 1..m, new[e + q].key = new[e + r].key
               PROVE  q = r
    OBVIOUS
  <2> QED BY <1>4, <1>5, <1>8 DEF IsMissing
<1>20. \A key \in PairKeys : Values(text, key) = {} => \E i \in extra : new[i].key = key
  <2> SUFFICES ASSUME NEW key \in PairKeys, Values(text, key) = {}
               PROVE  \E q \in 1..m : new[e + q].key = key
    OBVIOUS
  <2>1. PICK q \in DOMAIN more : more[q].key = key
    BY <1>4 DEF IsMissing
  <2> QED BY <1>5, <1>8, <2>1
<1>21. extra \subseteq DOMAIN new
  BY <1>8, <1>15
<1> HIDE DEF extra
<1>22. Carries(new, text, v, at, extra)
  BY <1>2, <1>8, <1>16, <1>17, <1>18, <1>19, <1>20, <1>21 DEF Carries
<1>23. LoadedPassword(new) = v /\ Others(new) = Others(text)
  BY <1>1, <1>22, CarriedLines
<1> QED BY <1>7, <1>8, <1>23

(* Where there is no section, one is begun at the end, after a blank line. *)
Begun(text) == Append(IF text = << >> \/ Last(text) = Blank THEN text ELSE Append(text, Blank),
                      Header("auth"))
Appended(new, text, line, n) ==
  /\ DOMAIN text = 1..n /\ DOMAIN new = 1..(n + 1)
  /\ \A i \in 1..n : new[i] = text[i] /\ SectionOf(new, i) = SectionOf(text, i)
  /\ new[n + 1] = line

LEMMA AppendedIs ==
  ASSUME NEW S, NEW text \in Seq(S), NEW line \in S
  PROVE  /\ \E n \in Nat : Appended(Append(text, line), text, line, n) /\ n = Len(text)
         /\ Append(text, line) \in Seq(S)
<1> DEFINE new == Append(text, line)
<1>1. PICK n \in Nat : n = Len(text) /\ DOMAIN text = 1..n
  OBVIOUS
<1>2. new \in Seq(S) /\ DOMAIN new = 1..(n + 1) /\ new[n + 1] = line
      /\ \A i \in 1..n : new[i] = text[i]
  BY <1>1
<1> HIDE DEF new
<1>3. ASSUME NEW i \in 1..n PROVE SectionOf(new, i) = SectionOf(text, i)
  <2>1. i \in Nat /\ \A k \in 1..i : k \in 1..n
    OBVIOUS
  <2> QED BY <1>2, <2>1, SectionStays
<1> QED BY <1>1, <1>2, <1>3 DEF Appended, new

LEMMA AppendedKeeps ==
  ASSUME NamesThere, NEW text, NEW new, NEW line, NEW n \in Nat, Appended(new, text, line, n),
         \/ line = Blank
         \/ line = Header("auth") /\ ~HasSection(text),
         Parses(text)
  PROVE  Parses(new) /\ Others(new) = Others(text)
<1>1. line.key = Absent /\ line \in {Blank, Header("auth")}
  BY DEF Blank, Header, Assignment
<1>2. /\ DOMAIN text = 1..n /\ DOMAIN new = 1..(n + 1) /\ new[n + 1] = line
      /\ \A i \in 1..n : new[i] = text[i] /\ SectionOf(new, i) = SectionOf(text, i)
  BY DEF Appended
<1>3. \A i \in 1..(n + 1) : i \in 1..n \/ i = n + 1
  OBVIOUS
<1>4. \A i \in 1..n : i \in 1..(n + 1) /\ i # n + 1
  OBVIOUS
<1>5. ASSUME NEW i \in 1..(n + 1), NEW j \in 1..(n + 1), i # j, IsHeader(new[i])
      PROVE  new[i] # new[j]
  <2>1. CASE i \in 1..n /\ j \in 1..n
    BY <1>2, <1>5, <2>1 DEF Parses
  <2>2. CASE i = n + 1 \/ j = n + 1
    <3> SUFFICES ASSUME new[i] = new[j] PROVE FALSE
      OBVIOUS
    <3>1. PICK k \in 1..n : text[k] = line /\ IsHeader(line)
      BY <1>2, <1>3, <1>5, <2>2
    <3>2. line = Header("auth") /\ ~HasSection(text)
      BY <3>1 DEF Blank, Assignment, IsHeader
    <3> QED BY <1>2, <3>1, <3>2 DEF HasSection
  <2> QED BY <1>3, <2>1, <2>2
<1>6. ASSUME NEW i \in 1..(n + 1), NEW j \in 1..(n + 1), i # j, new[i].key # Absent,
             new[i].key = new[j].key
      PROVE  SectionOf(new, i) # SectionOf(new, j)
  <2>1. i \in 1..n /\ j \in 1..n
    BY <1>1, <1>2, <1>3, <1>6
  <2> QED BY <1>2, <1>6, <2>1 DEF Parses
<1>7. Parses(new)
  BY <1>2, <1>5, <1>6 DEF Parses
<1> DEFINE Other(t, i) == ~(InAuth(t, i) /\ t[i].key \in PairKeys)
                          /\ t[i] \notin {Blank, Header("auth")}
<1>8. \A t : Others(t) = {<<SectionOf(t, i), t[i]>> : i \in {j \in DOMAIN t : Other(t, j)}}
  BY DEF Others
<1>9. \A i \in 1..n : Other(new, i) <=> Other(text, i)
  BY <1>2 DEF InAuth
<1>10. ~Other(new, n + 1)
  BY <1>1, <1>2
<1> HIDE DEF Other
<1>11. ASSUME NEW x \in Others(new) PROVE x \in Others(text)
  <2>1. PICK i \in 1..(n + 1) : Other(new, i) /\ x = <<SectionOf(new, i), new[i]>>
    BY <1>2, <1>8
  <2>2. i \in 1..n
    BY <1>3, <1>10, <2>1
  <2>3. i \in DOMAIN text /\ Other(text, i) /\ x = <<SectionOf(text, i), text[i]>>
    BY <1>2, <1>9, <2>1, <2>2
  <2> QED BY <1>8, <2>3
<1>12. ASSUME NEW x \in Others(text) PROVE x \in Others(new)
  <2>1. PICK i \in 1..n : Other(text, i) /\ x = <<SectionOf(text, i), text[i]>>
    BY <1>2, <1>8
  <2>2. i \in DOMAIN new /\ Other(new, i) /\ x = <<SectionOf(new, i), new[i]>>
    BY <1>2, <1>4, <1>9, <2>1
  <2> QED BY <1>8, <2>2
<1> QED BY <1>7, <1>11, <1>12

(* A text that has just begun its section at its end. *)
JustBegun(text, n) ==
  /\ DOMAIN text = 1..n /\ text[n] = Header("auth")
  /\ \A i \in 1..n : text[i].header = "auth" => i = n

LEMMA BegunIs ==
  ASSUME NamesThere, NEW S, \A l \in S : IsLine(l), Blank \in S, Header("auth") \in S,
         NEW text \in Seq(S), Parses(text), ~HasSection(text)
  PROVE  /\ Begun(text) \in Seq(S) /\ Parses(Begun(text)) /\ Others(Begun(text)) = Others(text)
         /\ \E n \in Nat \ {0} : n = Len(Begun(text)) /\ JustBegun(Begun(text), n)
<1> DEFINE base == IF text = << >> \/ Last(text) = Blank THEN text ELSE Append(text, Blank)
           new == Append(base, Header("auth"))
<1>1. /\ base \in Seq(S) /\ Parses(base) /\ Others(base) = Others(text) /\ ~HasSection(base)
  <2>1. CASE base = text
    BY <2>1
  <2>2. CASE base = Append(text, Blank)
    <3>1. Append(text, Blank) \in Seq(S)
      BY AppendedIs
    <3>2. PICK n \in Nat : Appended(Append(text, Blank), text, Blank, n)
      BY AppendedIs
    <3>3. Parses(Append(text, Blank)) /\ Others(Append(text, Blank)) = Others(text)
      BY <3>2, AppendedKeeps
    <3>4. ~HasSection(Append(text, Blank))
      <4>1. Blank # Header("auth")
        BY DEF Blank, Header, Assignment, NamesThere
      <4>2. \A i \in 1..(n + 1) : i \in 1..n \/ i = n + 1
        OBVIOUS
      <4> HIDE DEF base
      <4> QED BY <3>2, <4>1, <4>2 DEF Appended, HasSection
    <3> HIDE DEF base
    <3> QED BY <2>2, <3>1, <3>3, <3>4
  <2> QED BY <2>1, <2>2
<1> HIDE DEF base
<1>2. PICK k \in Nat : Appended(new, base, Header("auth"), k) /\ k = Len(base)
  BY <1>1, AppendedIs
<1>3. new \in Seq(S) /\ Len(new) = k + 1
  BY <1>1, <1>2
<1>4. Parses(new) /\ Others(new) = Others(base)
  BY <1>1, <1>2, AppendedKeeps
<1> HIDE DEF new
<1>5. \A i \in 1..k : base[i].header # "auth"
  <2> SUFFICES ASSUME NEW i \in 1..k, base[i].header = "auth" PROVE FALSE
    OBVIOUS
  <2>1. DOMAIN base = 1..k
    BY <1>2 DEF Appended
  <2>2. IsLine(base[i])
    BY <1>1, <2>1
  <2>3. base[i] = Header("auth")
    BY <2>2 DEF IsLine, Assignment, NamesThere
  <2> QED BY <1>1, <2>1, <2>3 DEF HasSection
<1>6. JustBegun(new, k + 1)
  <2>1. \A i \in 1..(k + 1) : i \in 1..k \/ i = k + 1
    OBVIOUS
  <2> QED BY <1>2, <1>5, <2>1 DEF Appended, JustBegun
<1>7. Begun(text) = new
  BY DEF Begun, new, base
<1>8. k + 1 \in Nat \ {0}
  OBVIOUS
<1> QED BY <1>1, <1>3, <1>4, <1>6, <1>7, <1>8

LEMMA KeysAppended ==
  ASSUME NamesThere, NEW v, NEW S, \A l \in S : IsLine(l), KeyLines(v) \subseteq S,
         NEW text \in Seq(S), NEW n \in Nat \ {0}, n = Len(text), JustBegun(text, n), Parses(text)
  PROVE  LET new == text \o Pairs(v)
         IN  new \in Seq(S) /\ LoadedPassword(new) = v /\ Others(new) = Others(text)
<1> DEFINE pairs == Pairs(v)
           new == text \o pairs
           at == [k \in 1..n |-> k]
           extra == (n + 1)..(n + 3)
<1>1. IsText(text) /\ DOMAIN text = 1..n
  BY LinesMakeText DEF JustBegun
<1>2. HasSection(text)
  BY <1>1 DEF HasSection, JustBegun
<1>3. /\ pairs \in Seq(S) /\ Len(pairs) = 3
      /\ pairs[1] = Assignment("pbkdf2_iterations", v) /\ pairs[2] = Assignment("salt", v)
      /\ pairs[3] = Assignment("hash", v)
  BY DEF Pairs, KeyLines, PairKeys
<1> HIDE DEF pairs
<1>4. IsConcat(new, S, text, pairs, n, 3)
  BY <1>3, Concatenated
<1> HIDE DEF new
<1>5. /\ new \in Seq(S) /\ DOMAIN new = 1..(n + 3)
      /\ \A i \in 1..n : new[i] = text[i]
      /\ new[n + 1] = Assignment("pbkdf2_iterations", v) /\ new[n + 2] = Assignment("salt", v)
      /\ new[n + 3] = Assignment("hash", v)
  BY <1>3, <1>4 DEF IsConcat
<1>6. ASSUME NEW i \in 1..n PROVE SectionOf(new, i) = SectionOf(text, i)
  <2>1. i \in Nat /\ \A k \in 1..i : k \in 1..n
    OBVIOUS
  <2> QED BY <1>5, <2>1, SectionStays
<1>7. ASSUME NEW i \in 1..n PROVE ~InAuth(text, i)
  <2> SUFFICES ASSUME ~IsHeader(text[i]), SectionOf(text, i) = "auth" PROVE FALSE
    BY DEF InAuth
  <2>1. i \in Nat
    OBVIOUS
  <2>2. PICK j : LastHeader(text, i, j) /\ text[j].header = "auth"
    BY <2>1, SectionHeader DEF NamesThere
  <2>3. j \in 1..n /\ j = n /\ i = n
    BY <2>2 DEF LastHeader, JustBegun
  <2>4. IsHeader(text[n])
    BY <2>2, <2>3 DEF LastHeader
  <2> QED BY <2>3, <2>4
<1>8. ASSUME NEW key PROVE Values(text, key) = {}
  BY <1>1, <1>7 DEF Values
<1>9. ASSUME NEW i \in 1..n PROVE new[i] = Rewritten(text, i, v)
  BY <1>5, <1>7 DEF Rewritten
<1>10. \A i \in extra : i = n + 1 \/ i = n + 2 \/ i = n + 3
  OBVIOUS
<1>11. ASSUME NEW i \in extra
       PROVE  /\ new[i].key \in PairKeys /\ new[i] = Assignment(new[i].key, v)
              /\ ~IsHeader(new[i])
  BY <1>5, <1>10 DEF Assignment, PairKeys, IsHeader
<1>12. ASSUME NEW i \in extra PROVE SectionOf(new, i) = "auth"
  <2>1. i \in Nat /\ n \in 1..i /\ n \in 1..n
    OBVIOUS
  <2>2. new[n] = Header("auth") /\ Header("auth").header = "auth"
    BY <1>5, <2>1 DEF JustBegun, Header
  <2>3. IsHeader(new[n])
    BY <2>2 DEF IsHeader, NamesThere
  <2>4. \A k \in 1..i : k <= n \/ k \in extra
    OBVIOUS
  <2>5. \A k \in 1..i : IsHeader(new[k]) => k <= n
    BY <1>11, <2>4
  <2>6. LastHeader(new, i, n)
    BY <2>1, <2>3, <2>5 DEF LastHeader
  <2> QED BY <2>1, <2>2, <2>6, SectionAt
<1>13. \A i \in extra : Added(new, text, v, i)
  BY <1>8, <1>11, <1>12 DEF Added
<1>14. /\ new[n + 1].key = "pbkdf2_iterations" /\ new[n + 2].key = "salt"
       /\ new[n + 3].key = "hash"
  BY <1>5 DEF Assignment
<1>15. \A i, j \in extra : new[i].key = new[j].key => i = j
  BY <1>10, <1>14
<1>16. \A key \in PairKeys : \E i \in extra : new[i].key = key
  <2>1. n + 1 \in extra /\ n + 2 \in extra /\ n + 3 \in extra
    OBVIOUS
  <2> HIDE DEF extra
  <2> QED BY <1>14, <2>1 DEF PairKeys
<1>17. /\ \A i \in 1..(n + 3) : i \in extra \/ i \in 1..n
       /\ \A k \in 1..n : k \in 1..(n + 3) /\ at[k] = k
       /\ extra \subseteq 1..(n + 3)
  OBVIOUS
<1> HIDE DEF at, extra
<1>18. \A k \in 1..n : /\ at[k] \in DOMAIN new /\ new[at[k]] = Rewritten(text, k, v)
                       /\ SectionOf(new, at[k]) = SectionOf(text, k)
  BY <1>5, <1>6, <1>9, <1>17
<1>19. \A i \in DOMAIN new : i \in extra \/ \E k \in DOMAIN text : i = at[k]
  BY <1>1, <1>5, <1>17
<1>20. Carries(new, text, v, at, extra)
  BY <1>1, <1>5, <1>13, <1>15, <1>16, <1>17, <1>18, <1>19 DEF Carries
<1>21. LoadedPassword(new) = v /\ Others(new) = Others(text)
  BY <1>1, <1>2, <1>20, CarriedLines
<1> QED BY <1>5, <1>21 DEF new, pairs

LEMMA SectionBegun ==
  ASSUME NamesThere, NEW v, NEW S, \A l \in S : IsLine(l), KeyLines(v) \subseteq S,
         Blank \in S, Header("auth") \in S,
         NEW text \in Seq(S), Parses(text), ~HasSection(text)
  PROVE  LET new == SetSectionKeys(text, Pairs(v))
         IN  new \in Seq(S) /\ LoadedPassword(new) = v /\ Others(new) = Others(text)
<1> DEFINE bare == text = << >> \/ Last(text) = Blank
<1>1. SetSectionKeys(text, Pairs(v)) = Begun(text) \o Pairs(v)
  <2>1. CASE bare
    <3>1. text \o << >> = text /\ text \o <<Header("auth")>> = Append(text, Header("auth"))
      BY ConcatEmptySeq, AppendIsConcat
    <3> QED BY <2>1, <3>1 DEF SetSectionKeys, Begun
  <2>2. CASE ~bare
    <3>1. text \o <<Blank>> = Append(text, Blank) /\ Append(text, Blank) \in Seq(S)
      BY AppendIsConcat
    <3>2. Append(text, Blank) \o <<Header("auth")>> = Append(Append(text, Blank), Header("auth"))
      BY <3>1, AppendIsConcat
    <3> QED BY <2>2, <3>1, <3>2 DEF SetSectionKeys, Begun
  <2> QED BY <2>1, <2>2
<1>2. /\ Begun(text) \in Seq(S) /\ Parses(Begun(text)) /\ Others(Begun(text)) = Others(text)
      /\ \E n \in Nat \ {0} : n = Len(Begun(text)) /\ JustBegun(Begun(text), n)
  BY BegunIs
<1> QED BY <1>1, <1>2, KeysAppended

(* What a file may hold: the lines it was found with and those written.       *)
FileLines(found) ==
  found \cup {Blank, Header("auth")} \cup UNION {KeyLines(v) : v \in Nat}
Filed(found) == stored \in Nat /\ file \in Seq(FileLines(found))

LEMMA KeysStayLines ==
  ASSUME NamesThere, NEW v, NEW S, \A l \in S : IsLine(l), KeyLines(v) \subseteq S,
         Blank \in S, Header("auth") \in S, NEW text \in Seq(S)
  PROVE  SetSectionKeys(text, Pairs(v)) \in Seq(S)
<1> DEFINE kept == Replaced(text, Pairs(v))
           more == Missing(text, Pairs(v))
           e == EndOfAuth(text)
<1>1. IsText(text) /\ \E n \in Nat : n = Len(text)
  BY LinesMakeText
<1>2. kept \in Seq(S) /\ Len(kept) = Len(text)
  BY ReplacedIs
<1>3. more \in Seq(S)
  <2>1. more \in Seq(KeyLines(v))
    BY MissingIs DEF IsMissing
  <2> QED BY <2>1, SeqMonotonic
<1>4. CASE HasSection(text)
  <2>1. e \in 1..Len(text)
    BY <1>1, <1>4, EndOfAuthThere
  <2>2. SetSectionKeys(text, Pairs(v)) =
          SubSeq(kept, 1, e) \o more \o SubSeq(kept, e + 1, Len(kept))
    BY <1>2, <1>4 DEF SetSectionKeys
  <2> HIDE DEF kept, more, e
  <2>3. PICK n \in Nat, m \in Nat : n = Len(kept) /\ m = Len(more) /\ e \in 1..n
    BY <1>2, <1>3, <2>1
  <2>4. IsSpliced(SubSeq(kept, 1, e) \o more \o SubSeq(kept, e + 1, Len(kept)),
                  S, kept, more, n, m, e)
    BY <1>2, <1>3, <2>3, Spliced
  <2> QED BY <2>2, <2>4 DEF IsSpliced
<1>5. CASE ~HasSection(text)
  <2>1. Pairs(v) \in Seq(S)
    BY DEF Pairs, KeyLines, PairKeys
  <2>2. /\ text \o << >> \in Seq(S) /\ text \o <<Blank>> \in Seq(S)
    OBVIOUS
  <2>3. \A s \in Seq(S) : s \o <<Header("auth")>> \o Pairs(v) \in Seq(S)
    BY <2>1
  <2> QED BY <1>5, <2>2, <2>3 DEF SetSectionKeys
<1> QED BY <1>4, <1>5

LEMMA KeysAreSet ==
  ASSUME NamesThere, NEW found, \A l \in found : IsLine(l), Filed(found), SetPassword
  PROVE  /\ Filed(found)'
         /\ Parses(file) => LoadedPassword(file') = stored' /\ Others(file') = Others(file)
<1> DEFINE S == FileLines(found)
           v == stored + 1
<1>1. file' = SetSectionKeys(file, Pairs(v)) /\ stored' = v /\ v \in Nat
  BY DEF SetPassword, Filed
<1>2. KeyLines(v) \subseteq S /\ Blank \in S /\ Header("auth") \in S
  BY <1>1 DEF FileLines
<1>3. \A l \in S : IsLine(l)
  BY DEF FileLines, IsLine, Blank, Header, Assignment, KeyLines
<1>4. file \in Seq(S)
  BY DEF Filed
<1> HIDE DEF S, v
<1>5. file' \in Seq(S)
  BY <1>1, <1>2, <1>3, <1>4, KeysStayLines
<1>6. Filed(found)'
  BY <1>1, <1>5 DEF Filed, S
<1>7. CASE ~Parses(file)
  BY <1>6, <1>7
<1>8. CASE Parses(file) /\ HasSection(file)
  BY <1>1, <1>2, <1>3, <1>4, <1>6, <1>8, KeysReplaced
<1>9. CASE Parses(file) /\ ~HasSection(file)
  BY <1>1, <1>2, <1>3, <1>4, <1>6, <1>9, SectionBegun
<1> QED BY <1>7, <1>8, <1>9

(* Whatever local.toml was found, made of headers, assignments and blank      *)
(* lines: if it is TOML, what --set-password writes is what the next start    *)
(* loads, and every line outside the keys of [auth] is as it was              *)
(* (set_section_keys, StoredPassword::from_toml).                             *)
THEOREM PasswordsAreWritten ==
  ASSUME NamesThere, NEW found, \A l \in found : IsLine(l), Files \subseteq Seq(found)
  PROVE  SessionsSpec => PasswordWritten
<1>1. SessionsInit => Filed(found)
  <2>1. Files \subseteq Seq(FileLines(found))
    BY SeqMonotonic DEF FileLines
  <2> QED BY <2>1 DEF SessionsInit, Filed
<1>2. Filed(found) /\ [SessionsNext]_sessionVars =>
        /\ Filed(found)'
        /\ file' # file /\ Parses(file) =>
             LoadedPassword(file') = stored' /\ Others(file') = Others(file)
  <2> SUFFICES ASSUME Filed(found), [SessionsNext]_sessionVars
               PROVE  /\ Filed(found)'
                      /\ file' # file /\ Parses(file) =>
                           LoadedPassword(file') = stored' /\ Others(file') = Others(file)
    OBVIOUS
  <2>1. CASE SetPassword
    BY <2>1, KeysAreSet
  <2>2. CASE ~SetPassword
    <3>1. UNCHANGED <<file, stored>>
      BY <2>2 DEF SessionsNext, sessionVars, Login, Wrong, Right, Request, Logout, Restart,
                  TimePasses
    <3> QED BY <3>1 DEF Filed
  <2> QED BY <2>1, <2>2
<1> QED BY <1>1, <1>2, PTL DEF SessionsSpec, PasswordWritten

-----------------------------------------------------------------------------
(***************************************************************************)
(* That a minute which was answered is never answered differently, for     *)
(* every number of pollers, every ring and whatever the clock does.        *)
(***************************************************************************)
WholePrices ==
  /\ Quotes \subseteq [bid : Int, ask : Int]
  /\ MinuteLength \in Nat \ {0} /\ RingMinutes \in Nat \ {0} /\ MaxClock \in Nat

Minute == [time : Int, open : Int, high : Int, low : Int, close : Int, ticks : Int, spread : Int]
StampedQuotes == [at : Int, quote : Quotes \cup {NoQuote}]
Series ==
  [done : Seq(Minute), forming : Seq(Minute), last : StampedQuotes, dropped : Int, duplicates : Int]

MinutesTyped ==
  /\ wall \in Nat
  /\ posted \in [Streams -> StampedQuotes]
  /\ \A s \in Streams : posted[s] = NotYet \/ posted[s].at \in Nat
  /\ minutes \in Series

(* Complete minutes in order, then the one that forms, which is the minute  *)
(* of the newest quote.                                                     *)
InOrder(agg) ==
  /\ agg.last = NotYet \/ agg.last.at \in Nat
  /\ \A i, j \in DOMAIN agg.done : i < j => agg.done[i].time < agg.done[j].time
  /\ agg.forming = << >> => agg.done = << >>
  /\ agg.forming # << >> =>
       /\ \A i \in DOMAIN agg.done : agg.done[i].time < agg.forming[1].time
       /\ agg.last # NotYet /\ agg.forming[1].time = MinuteOf(agg.last.at)

(* What was served is older than the minute that forms, and as it was.      *)
Stays(bars, agg) ==
  /\ bars # {} => agg.forming # << >>
  /\ \A b \in bars : b.time \in Int
  /\ \A b \in bars : agg.forming # << >> => agg.forming[1].time > b.time
  /\ \A b \in bars : \A i \in DOMAIN agg.done : agg.done[i].time = b.time => agg.done[i] = b

Kept == MinutesTyped /\ InOrder(minutes) /\ Stays(served, minutes)

-----------------------------------------------------------------------------
LEMMA MinutesGoUp ==
  ASSUME WholePrices, NEW a \in Nat, NEW b \in Nat, a <= b
  PROVE  MinuteOf(a) \in Int /\ MinuteOf(b) \in Int /\ MinuteOf(a) <= MinuteOf(b)
<1> DEFINE p == a \div MinuteLength
           q == b \div MinuteLength
<1>1. MinuteLength \in Nat /\ MinuteLength > 0
  BY DEF WholePrices
<1>2. p \in Int /\ q \in Int /\ p <= q
  BY <1>1
<1>3. p * MinuteLength <= q * MinuteLength
  BY <1>1, <1>2
<1>4. p * MinuteLength \in Int /\ q * MinuteLength \in Int
  BY <1>1, <1>2
<1> QED BY <1>3, <1>4 DEF MinuteOf

LEMMA StartsMinute ==
  ASSUME WholePrices, NEW quote \in Quotes, NEW time \in Int
  PROVE  StartMinute(time, quote) \in Minute /\ StartMinute(time, quote).time = time
<1>1. Mid(quote) \in Int /\ SpreadOf(quote) \in Int
  BY DEF WholePrices, Mid, SpreadOf
<1> QED BY <1>1 DEF StartMinute, Minute

LEMMA FoldsMinute ==
  ASSUME WholePrices, NEW quote \in Quotes, NEW minute \in Minute
  PROVE  FoldMinute(minute, quote) \in Minute /\ FoldMinute(minute, quote).time = minute.time
<1>1. Mid(quote) \in Int /\ SpreadOf(quote) \in Int
  BY DEF WholePrices, Mid, SpreadOf
<1>2. Larger(minute.high, Mid(quote)) \in Int /\ Smaller(minute.low, Mid(quote)) \in Int
  BY <1>1 DEF Larger, Smaller, Minute
<1>3. minute.ticks + 1 \in Int /\ minute.spread + SpreadOf(quote) \in Int
  BY <1>1 DEF Minute
<1> QED BY <1>1, <1>2, <1>3 DEF FoldMinute, Minute

(* A minute that is complete follows the others, the oldest of which may go. *)
LEMMA PushingKeepsOrder ==
  ASSUME WholePrices, NEW done \in Seq(Minute), NEW minute \in Minute
  PROVE  /\ PushDone(done, minute) \in Seq(Minute)
         /\ \E shift \in {0, 1} : \A i \in DOMAIN PushDone(done, minute) :
              \/ i = Len(PushDone(done, minute)) /\ PushDone(done, minute)[i] = minute
              \/ /\ i < Len(PushDone(done, minute))
                 /\ i + shift \in DOMAIN done /\ PushDone(done, minute)[i] = done[i + shift]
<1>1. CASE Len(done) = RingMinutes
  <2>1. Tail(done) \in Seq(Minute) /\ Len(Tail(done)) = Len(done) - 1
        /\ \A i \in 1..(Len(done) - 1) : Tail(done)[i] = done[i + 1]
    BY <1>1 DEF WholePrices
  <2>2. PushDone(done, minute) = Append(Tail(done), minute)
    BY <1>1 DEF PushDone
  <2> QED BY <2>1, <2>2
<1>2. CASE Len(done) # RingMinutes
  <2>1. PushDone(done, minute) = Append(done, minute)
    BY <1>2 DEF PushDone
  <2> QED BY <2>1
<1> QED BY <1>1, <1>2

(* Folding a quote changes no complete minute that was served.              *)
LEMMA FoldKeeps ==
  ASSUME WholePrices, NEW agg \in Series, InOrder(agg), NEW at \in Nat,
         NEW quote \in Quotes \cup {NoQuote}, NEW bars, Stays(bars, agg)
  PROVE  Fold(agg, at, quote) \in Series /\ InOrder(Fold(agg, at, quote))
         /\ Stays(bars, Fold(agg, at, quote))
<1> DEFINE time == MinuteOf(at)
           new == Fold(agg, at, quote)
           stamped == [at |-> at, quote |-> quote]
<1>1. CASE Verdict(agg, at, quote) = "dropped"
  <2>1. new = [agg EXCEPT !.dropped = @ + 1]
    BY <1>1 DEF Fold
  <2> HIDE DEF new
  <2>2. new \in Series /\ new.done = agg.done /\ new.forming = agg.forming /\ new.last = agg.last
    BY <2>1 DEF Series
  <2> QED BY <2>2 DEF new, InOrder, Stays
<1>2. CASE Verdict(agg, at, quote) = "duplicate"
  <2>1. new = [agg EXCEPT !.duplicates = @ + 1]
    BY <1>2 DEF Fold
  <2> HIDE DEF new
  <2>2. new \in Series /\ new.done = agg.done /\ new.forming = agg.forming /\ new.last = agg.last
    BY <2>1 DEF Series
  <2> QED BY <2>2 DEF new, InOrder, Stays
<1>3. CASE Verdict(agg, at, quote) = "folded"
  <2>1. /\ quote \in Quotes /\ stamped \in StampedQuotes /\ stamped.at = at /\ stamped # NotYet
        /\ agg.last # NotYet => at >= agg.last.at
    BY <1>3 DEF Verdict, StampedQuotes, NotYet, Series
  <2>2. time \in Int /\ (agg.last # NotYet => MinuteOf(agg.last.at) \in Int /\ time >= MinuteOf(agg.last.at))
    BY <2>1, MinutesGoUp DEF InOrder
  <2> DEFINE same == agg.forming # << >> /\ agg.forming[1].time = time
  <2>3. CASE same
    <3>1. new = [agg EXCEPT !.last = stamped, !.forming[1] = FoldMinute(@, quote)]
      BY <1>3, <2>3 DEF Fold
    <3>2. agg.forming[1] \in Minute /\ 1 \in DOMAIN agg.forming
      BY <2>3 DEF Series
    <3>3. FoldMinute(agg.forming[1], quote) \in Minute
          /\ FoldMinute(agg.forming[1], quote).time = time
      BY <2>1, <2>2, <2>3, <3>2, FoldsMinute
    <3> DEFINE forming == [agg.forming EXCEPT ![1] = FoldMinute(agg.forming[1], quote)]
    <3>4. forming \in Seq(Minute) /\ forming # << >> /\ forming[1].time = time
      BY <3>2, <3>3 DEF Series
    <3>5. new = [done |-> agg.done, forming |-> forming, last |-> stamped,
                 dropped |-> agg.dropped, duplicates |-> agg.duplicates]
      BY <3>1 DEF Series
    <3> HIDE DEF new, forming, stamped, time
    <3>6. new \in Series
      BY <2>1, <3>4, <3>5 DEF Series
    <3>7. InOrder(new)
      BY <2>1, <2>3, <3>4, <3>5 DEF InOrder, time
    <3>8. Stays(bars, new)
      BY <2>3, <3>4, <3>5 DEF Stays
    <3> QED BY <3>6, <3>7, <3>8 DEF new
  <2>4. CASE ~same
    <3> DEFINE done == IF agg.forming = << >> THEN agg.done ELSE PushDone(agg.done, agg.forming[1])
               minute == StartMinute(time, quote)
    <3>1. new = [agg EXCEPT !.last = stamped, !.done = done, !.forming = <<minute>>]
      BY <1>3, <2>4 DEF Fold
    <3>2. new = [done |-> done, forming |-> <<minute>>, last |-> stamped,
                 dropped |-> agg.dropped, duplicates |-> agg.duplicates]
      <4> HIDE DEF new, done, minute, stamped
      <4> QED BY <3>1 DEF Series
    <3>3. minute.time = time /\ <<minute>> \in Seq(Minute) /\ <<minute>> # << >> /\ <<minute>>[1] = minute
      <4>2. minute \in Minute /\ minute.time = time
        BY <2>1, <2>2, StartsMinute
      <4> QED BY <4>2
    <3>4. /\ done \in Seq(Minute)
          /\ \A i, j \in DOMAIN done : i < j => done[i].time < done[j].time
          /\ \A i \in DOMAIN done : done[i].time < time
          /\ \A b \in bars : \A i \in DOMAIN done : done[i].time = b.time => done[i] = b
          /\ \A b \in bars : time > b.time
      <4>1. CASE agg.forming = << >>
        <5>1. done = << >> /\ bars = {}
          BY <4>1 DEF InOrder, Stays
        <5> HIDE DEF done, time
        <5>2. done \in Seq(Minute) /\ DOMAIN done = {}
          BY <5>1
        <5> QED BY <5>1, <5>2
      <4>2. CASE agg.forming # << >>
        <5> DEFINE old == agg.forming[1]
        <5>1. done = PushDone(agg.done, old) /\ agg.done \in Seq(Minute) /\ old \in Minute
          BY <4>2 DEF Series
        <5>2. old.time \in Int /\ old.time < time
          BY <2>2, <2>4, <4>2, <5>1 DEF InOrder, Minute
        <5>a. \A i \in DOMAIN agg.done : agg.done[i] \in Minute
          BY <5>1
        <5>3. /\ \A i \in DOMAIN agg.done : agg.done[i].time \in Int
              /\ \A i \in DOMAIN agg.done : agg.done[i].time < old.time
              /\ \A i, j \in DOMAIN agg.done : i < j => agg.done[i].time < agg.done[j].time
          BY <4>2, <5>a DEF InOrder, Minute
        <5>4. \A b \in bars : b.time \in Int /\ old.time > b.time
          BY <4>2 DEF Stays
        <5>5. \A b \in bars : \A i \in DOMAIN agg.done : agg.done[i].time = b.time => agg.done[i] = b
          BY DEF Stays
        <5> HIDE DEF done, old, time
        <5>6. done \in Seq(Minute)
          BY <5>1, PushingKeepsOrder
        <5>7. PICK shift \in {0, 1} : \A i \in DOMAIN done :
                \/ i = Len(done) /\ done[i] = old
                \/ i < Len(done) /\ i + shift \in DOMAIN agg.done /\ done[i] = agg.done[i + shift]
          BY <5>1, PushingKeepsOrder
        <5>8. \A i, j \in DOMAIN done : i < j => done[i].time < done[j].time
          BY <5>1, <5>3, <5>6, <5>7
        <5>9. \A i \in DOMAIN done : done[i].time < time
          BY <2>2, <5>2, <5>3, <5>7
        <5>10. \A b \in bars : \A i \in DOMAIN done : done[i].time = b.time => done[i] = b
          BY <5>2, <5>4, <5>5, <5>7
        <5>11. \A b \in bars : time > b.time
          BY <2>2, <5>2, <5>4
        <5> QED BY <5>6, <5>8, <5>9, <5>10, <5>11
      <4> QED BY <4>1, <4>2
    <3> HIDE DEF new, done, minute, stamped, time
    <3>5. new \in Series
      BY <2>1, <3>2, <3>3, <3>4 DEF Series
    <3>6. InOrder(new)
      BY <2>1, <3>2, <3>3, <3>4 DEF InOrder, time
    <3>7. Stays(bars, new)
      BY <3>2, <3>3, <3>4 DEF Stays
    <3> QED BY <3>5, <3>6, <3>7 DEF new
  <2> QED BY <2>3, <2>4
<1>4. Verdict(agg, at, quote) \in {"dropped", "duplicate", "folded"}
  BY DEF Verdict
<1> QED BY <1>1, <1>2, <1>3, <1>4

(* What is answered is held, and stays.                                     *)
LEMMA AskingKeeps ==
  ASSUME WholePrices, NEW agg \in Series, InOrder(agg), NEW bars, Stays(bars, agg), NEW n \in Nat
  PROVE  Stays(bars \cup Range(Snapshot(agg, n).bars), agg)
<1> DEFINE shown == Snapshot(agg, n).bars
           first == IF Len(agg.done) > n THEN Len(agg.done) - n ELSE 0
<1>1. agg.done \in Seq(Minute) /\ Len(agg.done) \in Nat
  BY DEF Series
<1>2. shown = SubSeq(agg.done, first + 1, Len(agg.done))
  BY DEF Snapshot, NewestBars
<1>3. ASSUME NEW b \in Range(shown)
      PROVE  \E j \in DOMAIN agg.done : b = agg.done[j]
  <2>1. PICK i \in DOMAIN shown : b = shown[i]
    BY <1>3 DEF Range
  <2>2. first \in Nat /\ first <= Len(agg.done)
    BY <1>1
  <2> HIDE DEF first
  <2>3. i \in 1..(Len(agg.done) - first) /\ shown[i] = agg.done[first + i]
    BY <1>1, <1>2, <2>1, <2>2
  <2> QED BY <1>1, <2>1, <2>2, <2>3
<1> HIDE DEF shown
<1>a. \A j \in DOMAIN agg.done : agg.done[j] \in Minute
  BY <1>1
<1>4. \A j \in DOMAIN agg.done : agg.done[j].time \in Int
  BY <1>a DEF Minute
<1>5. ASSUME NEW b \in Range(shown)
      PROVE  /\ agg.forming # << >> /\ b.time \in Int /\ agg.forming[1].time > b.time
             /\ \A i \in DOMAIN agg.done : agg.done[i].time = b.time => agg.done[i] = b
  <2>1. PICK j \in DOMAIN agg.done : b = agg.done[j]
    BY <1>3, <1>5
  <2>2. agg.forming # << >>
    BY <1>1, <2>1 DEF InOrder
  <2>3. agg.forming[1].time > b.time
    BY <1>4, <2>1, <2>2 DEF InOrder
  <2>4. \A i \in DOMAIN agg.done : agg.done[i].time = b.time => i = j
    BY <1>1, <1>4, <2>1 DEF InOrder
  <2> QED BY <1>4, <2>1, <2>2, <2>3, <2>4
<1> QED BY <1>5 DEF Stays, shown

-----------------------------------------------------------------------------
LEMMA BeginsKept ==
  ASSUME WholePrices, MinutesInit
  PROVE  Kept
<1>1. NotYet \in StampedQuotes /\ NotYet.at = -1
  BY DEF NotYet, StampedQuotes
<1>2. minutes \in Series /\ minutes.done = << >> /\ minutes.forming = << >> /\ minutes.last = NotYet
  BY <1>1 DEF MinutesInit, NoMinutes, Series
<1>3. MinutesTyped
  BY <1>1, <1>2 DEF MinutesInit, MinutesTyped
<1>4. InOrder(minutes) /\ Stays(served, minutes)
  BY <1>2 DEF MinutesInit, InOrder, Stays
<1> QED BY <1>3, <1>4 DEF Kept

LEMMA StepKeeps ==
  ASSUME WholePrices, Kept, [MinutesNext]_minuteVars
  PROVE  Kept'
<1> USE DEF Kept
<1>0. NotYet \in StampedQuotes
  BY DEF NotYet, StampedQuotes
<1>1. ASSUME NEW to, ClockTurns(to) PROVE Kept'
  BY <1>1 DEF ClockTurns, WholePrices, MinutesTyped
<1>2. ASSUME NEW s \in Streams, NEW quote \in Quotes \cup {NoQuote}, TickArrives(s, quote) PROVE Kept'
  <2>1. posted' = [posted EXCEPT ![s] = [at |-> wall, quote |-> quote]]
        /\ UNCHANGED <<wall, minutes, served>>
    BY <1>2 DEF TickArrives
  <2>2. [at |-> wall, quote |-> quote] \in StampedQuotes
    BY DEF MinutesTyped, StampedQuotes
  <2>3. MinutesTyped'
    BY <2>1, <2>2 DEF MinutesTyped
  <2> QED BY <2>1, <2>3
<1>3. ASSUME NEW s \in Streams, OnTick(s) PROVE Kept'
  <2> DEFINE posting == posted[s]
  <2>1. /\ minutes' = Fold(minutes, posting.at, posting.quote) /\ posting # NotYet
        /\ posted' = [posted EXCEPT ![s] = NotYet] /\ UNCHANGED <<wall, served>>
    BY <1>3 DEF OnTick
  <2>2. posting.at \in Nat /\ posting.quote \in Quotes \cup {NoQuote}
    BY <2>1 DEF MinutesTyped, StampedQuotes
  <2>3. minutes' \in Series /\ InOrder(minutes') /\ Stays(served, minutes')
    BY <2>1, <2>2, FoldKeeps DEF MinutesTyped
  <2>4. MinutesTyped'
    BY <1>0, <2>1, <2>3 DEF MinutesTyped
  <2> QED BY <2>1, <2>3, <2>4
<1>4. ASSUME NEW n \in 1..RingMinutes, Ask(n) PROVE Kept'
  <2>1. n \in Nat
    BY DEF WholePrices
  <2>2. served' = served \cup Range(Snapshot(minutes, n).bars) /\ UNCHANGED <<wall, posted, minutes>>
    BY <1>4 DEF Ask
  <2> QED BY <2>1, <2>2, AskingKeeps DEF MinutesTyped
<1>5. CASE RestartMinutes
  <2>1. /\ minutes' = NoMinutes /\ served' = {} /\ wall' = wall
        /\ posted' = [s \in Streams |-> NotYet]
    BY <1>5 DEF RestartMinutes
  <2>2. /\ minutes' \in Series /\ minutes'.done = << >> /\ minutes'.forming = << >>
        /\ minutes'.last = NotYet
    BY <1>0, <2>1 DEF NoMinutes, Series
  <2>3. MinutesTyped'
    BY <1>0, <2>1, <2>2 DEF MinutesTyped
  <2>4. InOrder(minutes') /\ Stays(served', minutes')
    BY <2>1, <2>2 DEF InOrder, Stays
  <2> QED BY <2>3, <2>4
<1>6. CASE UNCHANGED minuteVars
  BY <1>6 DEF minuteVars, MinutesTyped
<1> QED BY <1>1, <1>2, <1>3, <1>4, <1>5, <1>6 DEF MinutesNext

(* A minute that was served and is still held is what was served, and no    *)
(* minute forms twice, for any number of streams that post quotes in any    *)
(* order, any ring, and a clock that is set back at will.                   *)
THEOREM ServedMinutesStay ==
  ASSUME WholePrices
  PROVE  MinutesSpec => []ServedStays
<1>1. MinutesInit => Kept
  BY BeginsKept
<1>2. Kept /\ [MinutesNext]_minuteVars => Kept'
  BY StepKeeps
<1>3. Kept => ServedStays
  BY DEF Kept, Stays, ServedStays
<1> QED BY <1>1, <1>2, <1>3, PTL DEF MinutesSpec

-----------------------------------------------------------------------------
(***************************************************************************)
(* That the minutes are those of the quotes, for every ring and every      *)
(* number of quotes.                                                       *)
(***************************************************************************)
FoldedQuotes == [at : Nat, quote : Quotes]
AtMinute(quotes, time) == {i \in DOMAIN quotes : MinuteOf(quotes[i].at) = time}
MidsOf(quotes, at) == {Mid(quotes[i].quote) : i \in at}
SpreadSum(f, quotes, at, n) ==
  f = [i \in 0..n |-> IF i = 0 THEN 0
                      ELSE f[i - 1] + (IF i \in at THEN SpreadOf(quotes[i].quote) ELSE 0)]

(* The minute a sequence of quotes gives, field by field. *)
Groups(b, quotes, time) ==
  LET at == AtMinute(quotes, time)
  IN  /\ b \in Minute /\ b.time = time
      /\ \E i \in at : (\A j \in at : i <= j) /\ b.open = Mid(quotes[i].quote)
      /\ \E i \in at : (\A j \in at : j <= i) /\ b.close = Mid(quotes[i].quote)
      /\ b.high \in MidsOf(quotes, at) /\ \A m \in MidsOf(quotes, at) : m <= b.high
      /\ b.low \in MidsOf(quotes, at) /\ \A m \in MidsOf(quotes, at) : b.low <= m
      /\ IsFiniteSet(at) /\ b.ticks = Cardinality(at)
      /\ \E f : SpreadSum(f, quotes, at, Len(quotes)) /\ b.spread = f[Len(quotes)]

LEMMA SameSpread ==
  ASSUME NEW quotes, NEW at, NEW n \in Nat, NEW k \in Nat, k <= n,
         NEW quotes2, NEW at2,
         \A i \in 1..k : i \in at <=> i \in at2,
         \A i \in 1..k : quotes[i] = quotes2[i],
         NEW f, SpreadSum(f, quotes, at, k), NEW g, SpreadSum(g, quotes2, at2, n)
  PROVE  g[k] = f[k]
<1> DEFINE T == {i \in 0..k : g[i] # f[i]}
<1>1. T = {}
  <2> SUFFICES ASSUME T # {} PROVE FALSE
    OBVIOUS
  <2>1. PICK i \in T : \A j \in T : i <= j
    <3>1. T \subseteq Nat
      OBVIOUS
    <3> HIDE DEF T
    <3> QED BY <3>1, FirstOf
  <2>2. /\ f[i] = IF i = 0 THEN 0 ELSE f[i - 1] + (IF i \in at THEN SpreadOf(quotes[i].quote) ELSE 0)
        /\ g[i] = IF i = 0 THEN 0 ELSE g[i - 1] + (IF i \in at2 THEN SpreadOf(quotes2[i].quote) ELSE 0)
    <3>1. i \in 0..k /\ i \in 0..n
      BY <2>1
    <3> HIDE DEF T
    <3> QED BY <3>1 DEF SpreadSum
  <2>3. CASE i = 0
    BY <2>1, <2>2, <2>3
  <2>4. CASE i # 0
    <3>1. i - 1 \in 0..k /\ ~(i <= i - 1) /\ i \in 1..k
      BY <2>1, <2>4
    <3>2. g[i - 1] = f[i - 1]
      BY <2>1, <3>1
    <3>3. (i \in at <=> i \in at2) /\ quotes[i] = quotes2[i]
      BY <3>1
    <3>4. g[i] = f[i]
      BY <2>2, <2>4, <3>2, <3>3, Zenon
    <3> QED BY <2>1, <3>4
  <2> QED BY <2>3, <2>4
<1> QED BY <1>1

SameTo(quotes, at, quotes2, at2, n) ==
  /\ \A i \in 1..n : i \in at <=> i \in at2
  /\ \A i \in 1..n : quotes[i] = quotes2[i]
SumGrown(g, f, quotes, at, n) ==
  /\ SpreadSum(g, quotes, at, n + 1)
  /\ g[n + 1] = f[n] + (IF n + 1 \in at THEN SpreadOf(quotes[n + 1].quote) ELSE 0)

LEMMA SpreadSumGrows ==
  ASSUME NEW quotes, NEW at, NEW n \in Nat, NEW quotes2, NEW at2,
         SameTo(quotes, at, quotes2, at2, n), NEW f, SpreadSum(f, quotes, at, n)
  PROVE  \E g : SumGrown(g, f, quotes2, at2, n)
<1> DEFINE last == f[n] + (IF n + 1 \in at2 THEN SpreadOf(quotes2[n + 1].quote) ELSE 0)
           g == [i \in 0..(n + 1) |-> IF i = n + 1 THEN last ELSE f[i]]
<1>a. (\A i \in 1..n : i \in at <=> i \in at2) /\ \A i \in 1..n : quotes[i] = quotes2[i]
  BY Zenon DEF SameTo
<1>1. \A i \in 0..n : f[i] = IF i = 0 THEN 0
                             ELSE f[i - 1] + (IF i \in at THEN SpreadOf(quotes[i].quote) ELSE 0)
  BY DEF SpreadSum
<1>2. g[n + 1] = last /\ \A i \in 0..n : g[i] = f[i]
  BY SMT
<1>3. g = [i \in 0..(n + 1) |-> g[i]]
  OBVIOUS
<1>4. ASSUME NEW i \in 0..(n + 1)
      PROVE  g[i] = IF i = 0 THEN 0
                    ELSE g[i - 1] + (IF i \in at2 THEN SpreadOf(quotes2[i].quote) ELSE 0)
  <2> HIDE DEF g
  <2>1. CASE i = n + 1
    <3>1. i # 0 /\ i - 1 = n /\ n \in 0..n
      BY <2>1
    <3>2. g[i - 1] = f[n]
      BY <1>2, <3>1
    <3> QED BY <1>2, <2>1, <3>1, <3>2
  <2>2. CASE i = 0
    <3>1. i \in 0..n
      BY <2>2
    <3> QED BY <1>1, <1>2, <2>2, <3>1
  <2>3. CASE i # n + 1 /\ i # 0
    <3>1. i \in 0..n /\ i - 1 \in 0..n /\ i \in 1..n
      BY <2>3
    <3>2. g[i] = f[i] /\ g[i - 1] = f[i - 1] /\ (i \in at <=> i \in at2) /\ quotes[i] = quotes2[i]
      BY <1>a, <1>2, <3>1
    <3>3. f[i] = IF i = 0 THEN 0
                 ELSE f[i - 1] + (IF i \in at THEN SpreadOf(quotes[i].quote) ELSE 0)
      BY <1>1, <3>1
    <3> QED BY <2>3, <3>2, <3>3, Zenon
  <2> QED BY <2>1, <2>2, <2>3
<1> HIDE DEF g
<1>5. SpreadSum(g, quotes2, at2, n + 1)
  BY <1>3, <1>4 DEF SpreadSum
<1> QED BY <1>2, <1>5, Zenon DEF SumGrown

(* Only one minute is what the quotes give. *)
LEMMA GroupsIsGrouped ==
  ASSUME WholePrices, NEW quotes \in Seq(FoldedQuotes), NEW time, NEW b, Groups(b, quotes, time)
  PROVE  b = Grouped(quotes, time)
<1> DEFINE at == AtMinute(quotes, time)
           mids == MidsOf(quotes, at)
           first == CHOOSE i \in at : \A j \in at : i <= j
           last == CHOOSE i \in at : \A j \in at : j <= i
           top == CHOOSE m \in mids : \A n \in mids : n <= m
           foot == CHOOSE m \in mids : \A n \in mids : m <= n
           sum == CHOOSE f : SpreadSum(f, quotes, at, Len(quotes))
<1>1. PICK n \in Nat : Len(quotes) = n /\ DOMAIN quotes = 1..n
  OBVIOUS
<1>2. at \subseteq Nat
  BY <1>1 DEF AtMinute
<1>3. mids \subseteq Int
  <2>1. \A i \in DOMAIN quotes : quotes[i] \in FoldedQuotes
    OBVIOUS
  <2>2. \A i \in DOMAIN quotes : Mid(quotes[i].quote) \in Int
    BY <2>1 DEF WholePrices, FoldedQuotes, Mid
  <2> QED BY <2>2 DEF MidsOf, AtMinute
<1>4. Grouped(quotes, time) =
        [time |-> time, open |-> Mid(quotes[first].quote), high |-> top, low |-> foot,
         close |-> Mid(quotes[last].quote), ticks |-> Cardinality(at), spread |-> sum[Len(quotes)]]
  BY DEF Grouped, AtMinute, MidsOf, SpreadSum
<1> HIDE DEF at, mids
<1>5. b.open = Mid(quotes[first].quote)
  <2>1. PICK i \in at : (\A j \in at : i <= j) /\ b.open = Mid(quotes[i].quote)
    BY DEF Groups, at
  <2>2. at \subseteq Int
    BY <1>2
  <2>3. first = i
    BY <2>1, <2>2, LeastIs
  <2> QED BY <2>1, <2>3, Zenon
<1>6. b.close = Mid(quotes[last].quote)
  <2>1. PICK i \in at : (\A j \in at : j <= i) /\ b.close = Mid(quotes[i].quote)
    BY DEF Groups, at
  <2>2. at \subseteq Int
    BY <1>2
  <2>3. last = i
    BY <2>1, <2>2, GreatestIs
  <2> QED BY <2>1, <2>3, Zenon
<1>7. b.high = top
  <2>1. b.high \in mids /\ \A m \in mids : m <= b.high
    BY DEF Groups, at, mids
  <2> QED BY <1>3, <2>1, GreatestIs
<1>8. b.low = foot
  <2>1. b.low \in mids /\ \A m \in mids : b.low <= m
    BY DEF Groups, at, mids
  <2> QED BY <1>3, <2>1, LeastIs
<1>9. b.spread = sum[Len(quotes)]
  <2>1. PICK f : SpreadSum(f, quotes, at, n) /\ b.spread = f[n]
    BY <1>1 DEF Groups, at
  <2>2. SpreadSum(sum, quotes, at, n)
    BY <1>1, <2>1
  <2> HIDE DEF sum
  <2>3. sum[n] = f[n]
    BY <2>1, <2>2, SameSpread
  <2> QED BY <1>1, <2>1, <2>3
<1>10. b.time = time /\ b.ticks = Cardinality(at)
  BY DEF Groups, at
<1>11. b = [time |-> b.time, open |-> b.open, high |-> b.high, low |-> b.low,
            close |-> b.close, ticks |-> b.ticks, spread |-> b.spread]
  BY DEF Groups, Minute
<1> HIDE DEF first, last, top, foot, sum
<1> QED BY <1>4, <1>5, <1>6, <1>7, <1>8, <1>9, <1>10, <1>11, Zenon

LEMMA Appends ==
  ASSUME NEW quotes \in Seq(FoldedQuotes), NEW q \in FoldedQuotes
  PROVE  /\ Append(quotes, q) \in Seq(FoldedQuotes)
         /\ \E n \in Nat :
              /\ Len(quotes) = n /\ DOMAIN quotes = 1..n
              /\ Len(Append(quotes, q)) = n + 1 /\ DOMAIN Append(quotes, q) = 1..(n + 1)
              /\ \A i \in 1..n : Append(quotes, q)[i] = quotes[i]
              /\ Append(quotes, q)[n + 1] = q
<1>1. Append(quotes, q) \in Seq(FoldedQuotes)
  OBVIOUS
<1>2. Len(quotes) \in Nat /\ DOMAIN quotes = 1..Len(quotes)
  OBVIOUS
<1>3. Len(Append(quotes, q)) = Len(quotes) + 1 /\ DOMAIN Append(quotes, q) = 1..(Len(quotes) + 1)
  OBVIOUS
<1>4. \A i \in 1..Len(quotes) : Append(quotes, q)[i] = quotes[i]
  OBVIOUS
<1>5. Append(quotes, q)[Len(quotes) + 1] = q
  OBVIOUS
<1> QED BY <1>1, <1>2, <1>3, <1>4, <1>5, Zenon

(* A quote of another minute changes nothing of this one. *)
LEMMA GroupsStay ==
  ASSUME NEW quotes \in Seq(FoldedQuotes), NEW q \in FoldedQuotes,
         NEW time, MinuteOf(q.at) # time, NEW b, Groups(b, quotes, time)
  PROVE  Groups(b, Append(quotes, q), time)
<1> DEFINE more == Append(quotes, q)  at == AtMinute(quotes, time)
<1>1. PICK n \in Nat :
        /\ Len(quotes) = n /\ DOMAIN quotes = 1..n
        /\ Len(more) = n + 1 /\ DOMAIN more = 1..(n + 1)
        /\ \A i \in 1..n : more[i] = quotes[i]
        /\ more[n + 1] = q
  BY Appends
<1> HIDE DEF more
<1>2. AtMinute(more, time) = at
  BY <1>1 DEF AtMinute
<1>3. \A i \in at : more[i] = quotes[i]
  BY <1>1 DEF AtMinute
<1>4. MidsOf(more, at) = MidsOf(quotes, at)
  BY <1>3, Zenon DEF MidsOf
<1>5. n + 1 \notin at
  BY <1>1 DEF AtMinute
<1>6. PICK f : SpreadSum(f, quotes, at, n) /\ b.spread = f[n]
  BY <1>1 DEF Groups
<1>7. PICK g : SumGrown(g, f, more, at, n)
  <2>1. SameTo(quotes, at, more, at, n)
    BY <1>1 DEF SameTo
  <2> HIDE DEF at
  <2> QED BY <1>6, <2>1, SpreadSumGrows
<1>8. b.spread \in Int
  BY DEF Groups, Minute
<1>9. SpreadSum(g, more, at, n + 1) /\ g[n + 1] = b.spread
  BY <1>5, <1>6, <1>7, <1>8 DEF SumGrown
<1>10. /\ b \in Minute /\ b.time = time
       /\ \E i \in at : (\A j \in at : i <= j) /\ b.open = Mid(quotes[i].quote)
       /\ \E i \in at : (\A j \in at : j <= i) /\ b.close = Mid(quotes[i].quote)
       /\ b.high \in MidsOf(quotes, at) /\ \A m \in MidsOf(quotes, at) : m <= b.high
       /\ b.low \in MidsOf(quotes, at) /\ \A m \in MidsOf(quotes, at) : b.low <= m
       /\ IsFiniteSet(at) /\ b.ticks = Cardinality(at)
  BY DEF Groups
<1> HIDE DEF at
<1>11. \E i \in at : (\A j \in at : i <= j) /\ b.open = Mid(more[i].quote)
  BY <1>3, <1>10, Zenon
<1>12. \E i \in at : (\A j \in at : j <= i) /\ b.close = Mid(more[i].quote)
  BY <1>3, <1>10, Zenon
<1>13. \E g1 : SpreadSum(g1, more, at, Len(more)) /\ b.spread = g1[Len(more)]
  BY <1>1, <1>9
<1> QED BY <1>2, <1>4, <1>10, <1>11, <1>12, <1>13, Zenon DEF Groups, more

(* A quote of this minute is folded into it. *)
LEMMA GroupsMore ==
  ASSUME WholePrices, NEW quotes \in Seq(FoldedQuotes), NEW q \in FoldedQuotes,
         NEW time, MinuteOf(q.at) = time, NEW b, Groups(b, quotes, time)
  PROVE  Groups(FoldMinute(b, q.quote), Append(quotes, q), time)
<1> DEFINE more == Append(quotes, q)  at == AtMinute(quotes, time)  c == FoldMinute(b, q.quote)
<1>1. PICK n \in Nat :
        /\ Len(quotes) = n /\ DOMAIN quotes = 1..n
        /\ Len(more) = n + 1 /\ DOMAIN more = 1..(n + 1)
        /\ \A i \in 1..n : more[i] = quotes[i]
        /\ more[n + 1] = q
  BY Appends
<1> HIDE DEF more
<1>2. AtMinute(more, time) = at \cup {n + 1} /\ n + 1 \notin at /\ at \subseteq 1..n
  BY <1>1 DEF AtMinute
<1>3. \A i \in at : more[i] = quotes[i]
  BY <1>1, <1>2
<1> DEFINE mids == MidsOf(quotes, at)
<1>4. MidsOf(more, at \cup {n + 1}) = mids \cup {Mid(q.quote)}
  BY <1>1, <1>3, Zenon DEF MidsOf
<1>5. b \in Minute /\ b.time = time /\ q.quote \in Quotes
  BY DEF Groups, FoldedQuotes
<1>6. Mid(q.quote) \in Int /\ SpreadOf(q.quote) \in Int
  BY <1>5 DEF WholePrices, Mid, SpreadOf
<1>7. /\ c \in Minute /\ c.time = time
      /\ c.open = b.open /\ c.close = Mid(q.quote) /\ c.ticks = b.ticks + 1
      /\ c.high = Larger(b.high, Mid(q.quote)) /\ c.low = Smaller(b.low, Mid(q.quote))
      /\ c.spread = b.spread + SpreadOf(q.quote)
  <2>1. c \in Minute /\ c.time = time
    BY <1>5, FoldsMinute
  <2> QED BY <1>5, <2>1 DEF FoldMinute, Minute
<1>8. b.high \in Int /\ b.low \in Int /\ b.spread \in Int /\ b.ticks \in Int
  BY <1>5 DEF Minute
<1>9. /\ \E i \in at : (\A j \in at : i <= j) /\ b.open = Mid(quotes[i].quote)
      /\ b.high \in mids /\ \A m \in mids : m <= b.high
      /\ b.low \in mids /\ \A m \in mids : b.low <= m
      /\ IsFiniteSet(at) /\ b.ticks = Cardinality(at)
  BY DEF Groups
<1>10. mids \subseteq Int
  <2>1. \A i \in DOMAIN quotes : quotes[i] \in FoldedQuotes
    OBVIOUS
  <2>2. \A i \in DOMAIN quotes : Mid(quotes[i].quote) \in Int
    BY <2>1 DEF WholePrices, FoldedQuotes, Mid
  <2> QED BY <2>2 DEF MidsOf, AtMinute
<1>11. PICK f : SpreadSum(f, quotes, at, n) /\ b.spread = f[n]
  BY <1>1 DEF Groups
<1> HIDE DEF at, mids, c
<1> DEFINE at2 == at \cup {n + 1}  mids2 == mids \cup {Mid(q.quote)}
<1>12. \E i \in at2 : (\A j \in at2 : i <= j) /\ c.open = Mid(more[i].quote)
  <2>1. PICK i \in at : (\A j \in at : i <= j) /\ b.open = Mid(quotes[i].quote)
    BY <1>9
  <2>2. i <= n + 1
    BY <1>2
  <2>3. \A j \in at2 : i <= j
    BY <2>1, <2>2
  <2>4. c.open = Mid(more[i].quote) /\ i \in at2
    BY <1>3, <1>7, <2>1
  <2> HIDE DEF at2
  <2> QED BY <2>3, <2>4
<1>13. \E i \in at2 : (\A j \in at2 : j <= i) /\ c.close = Mid(more[i].quote)
  <2>1. \A j \in at2 : j <= n + 1
    BY <1>2
  <2>2. c.close = Mid(more[n + 1].quote) /\ n + 1 \in at2
    BY <1>1, <1>7
  <2> HIDE DEF at2
  <2> QED BY <2>1, <2>2
<1>14. c.high \in mids2 /\ \A m \in mids2 : m <= c.high
  BY <1>6, <1>7, <1>8, <1>9, <1>10 DEF Larger
<1>15. c.low \in mids2 /\ \A m \in mids2 : c.low <= m
  BY <1>6, <1>7, <1>8, <1>9, <1>10 DEF Smaller
<1>16. IsFiniteSet(at2) /\ c.ticks = Cardinality(at2)
  <2>1. IsFiniteSet(at2) /\ Cardinality(at2) = Cardinality(at) + 1
    BY <1>2, <1>9, FS_AddElement
  <2> HIDE DEF at2
  <2> QED BY <1>7, <1>9, <2>1
<1>17. \E g : SpreadSum(g, more, at2, n + 1) /\ c.spread = g[n + 1]
  <2>1. SameTo(quotes, at, more, at2, n)
    BY <1>1 DEF SameTo
  <2>3. n + 1 \in at2
    OBVIOUS
  <2> HIDE DEF at2
  <2>4. PICK g : SumGrown(g, f, more, at2, n)
    BY <1>11, <2>1, SpreadSumGrows
  <2>5. SpreadSum(g, more, at2, n + 1) /\ g[n + 1] = f[n] + SpreadOf(more[n + 1].quote)
    BY <2>3, <2>4 DEF SumGrown
  <2>6. c.spread = g[n + 1]
    BY <1>1, <1>7, <1>11, <2>5
  <2> QED BY <2>5, <2>6
<1> HIDE DEF at2, mids2
<1>18. AtMinute(more, time) = at2 /\ MidsOf(more, at2) = mids2
  BY <1>2, <1>4 DEF at2, mids2
<1>19. c \in Minute /\ c.time = time /\ Len(more) = n + 1
  BY <1>1, <1>7
<1> QED BY <1>12, <1>13, <1>14, <1>15, <1>16, <1>17, <1>18, <1>19, Zenon DEF Groups, more, c

(* The first quote of a minute begins it. *)
LEMMA GroupsOne ==
  ASSUME WholePrices, NEW quotes \in Seq(FoldedQuotes), NEW q \in FoldedQuotes,
         NEW time \in Int, MinuteOf(q.at) = time, AtMinute(quotes, time) = {}
  PROVE  Groups(StartMinute(time, q.quote), Append(quotes, q), time)
<1> DEFINE more == Append(quotes, q)  c == StartMinute(time, q.quote)
<1>1. PICK n \in Nat :
        /\ Len(quotes) = n /\ DOMAIN quotes = 1..n
        /\ Len(more) = n + 1 /\ DOMAIN more = 1..(n + 1)
        /\ \A i \in 1..n : more[i] = quotes[i]
        /\ more[n + 1] = q
  BY Appends
<1> HIDE DEF more
<1>2. AtMinute(more, time) = {n + 1}
  BY <1>1 DEF AtMinute
<1>3. MidsOf(more, {n + 1}) = {Mid(q.quote)}
  BY <1>1 DEF MidsOf
<1>4. q.quote \in Quotes
  BY DEF FoldedQuotes
<1>5. Mid(q.quote) \in Int /\ SpreadOf(q.quote) \in Int
  BY <1>4 DEF WholePrices, Mid, SpreadOf
<1>6. /\ c \in Minute /\ c.time = time
      /\ c.open = Mid(q.quote) /\ c.close = Mid(q.quote) /\ c.ticks = 1
      /\ c.high = Mid(q.quote) /\ c.low = Mid(q.quote) /\ c.spread = SpreadOf(q.quote)
  BY <1>4, StartsMinute DEF StartMinute
<1> HIDE DEF c
<1>7. \E g : SpreadSum(g, more, {n + 1}, n + 1) /\ c.spread = g[n + 1]
  <2> DEFINE f == [i \in 0..n |-> 0]
  <2>1. ASSUME NEW i \in 0..n
        PROVE  f[i] = IF i = 0 THEN 0
                      ELSE f[i - 1] + (IF i \in {} THEN SpreadOf(quotes[i].quote) ELSE 0)
    <3>1. CASE i = 0
      BY <3>1
    <3>2. CASE i # 0
      <4>1. i - 1 \in 0..n
        BY <3>2
      <4>2. f[i - 1] = 0 /\ f[i] = 0
        BY <4>1
      <4> HIDE DEF f
      <4> QED BY <3>2, <4>2
    <3> QED BY <3>1, <3>2
  <2>2. f = [i \in 0..n |-> f[i]] /\ f[n] = 0
    OBVIOUS
  <2> HIDE DEF f
  <2>3. SpreadSum(f, quotes, {}, n)
    BY <2>1, <2>2 DEF SpreadSum
  <2> DEFINE none == {}  at2 == {n + 1}
  <2>4. SameTo(quotes, none, more, at2, n) /\ n + 1 \in at2
    BY <1>1 DEF SameTo
  <2>5. SpreadSum(f, quotes, none, n)
    BY <2>3
  <2> HIDE DEF none, at2
  <2>6. PICK g : SumGrown(g, f, more, at2, n)
    BY <2>4, <2>5, SpreadSumGrows
  <2>7. SpreadSum(g, more, at2, n + 1) /\ g[n + 1] = 0 + SpreadOf(q.quote)
    BY <1>1, <2>2, <2>4, <2>6 DEF SumGrown
  <2>8. c.spread = g[n + 1]
    BY <1>5, <1>6, <2>7
  <2> QED BY <2>7, <2>8 DEF at2
<1>8. IsFiniteSet({n + 1}) /\ Cardinality({n + 1}) = 1
  BY FS_Singleton
<1>9. /\ \E i \in {n + 1} : (\A j \in {n + 1} : i <= j) /\ c.open = Mid(more[i].quote)
      /\ \E i \in {n + 1} : (\A j \in {n + 1} : j <= i) /\ c.close = Mid(more[i].quote)
  BY <1>1, <1>6
<1>10. /\ c.high \in {Mid(q.quote)} /\ \A m \in {Mid(q.quote)} : m <= c.high
       /\ c.low \in {Mid(q.quote)} /\ \A m \in {Mid(q.quote)} : c.low <= m
  BY <1>5, <1>6
<1>11. c \in Minute /\ c.time = time /\ c.ticks = 1 /\ Len(more) = n + 1
  BY <1>1, <1>6
<1> QED BY <1>2, <1>3, <1>7, <1>8, <1>9, <1>10, <1>11, Zenon DEF Groups, more, c

-----------------------------------------------------------------------------
(* Where a minute that was quoted is: forming, complete, or lost with the   *)
(* oldest of a full ring.                                                   *)
Placed(agg, time) ==
  \/ time = agg.forming[1].time
  \/ \E i \in DOMAIN agg.done : agg.done[i].time = time
  \/ Len(agg.done) = RingMinutes /\ time < agg.done[1].time
Recounted(agg, quotes) ==
  /\ quotes \in Seq(FoldedQuotes)
  /\ Len(agg.done) <= RingMinutes
  /\ agg.forming = << >> \/ agg.forming = <<agg.forming[1]>>
  /\ agg.forming = << >> => quotes = << >>
  /\ \A i \in DOMAIN agg.done : Groups(agg.done[i], quotes, agg.done[i].time)
  /\ agg.forming # << >> => Groups(agg.forming[1], quotes, agg.forming[1].time)
  /\ \A i \in DOMAIN quotes : Placed(agg, MinuteOf(quotes[i].at))

(* What becomes of a ring: the minute comes last, and the oldest goes if the *)
(* ring was full.                                                           *)
Pushed(done, out, minute, k, n, shift) ==
  /\ Len(done) = k /\ DOMAIN done = 1..k
  /\ Len(out) = n /\ DOMAIN out = 1..n
  /\ n >= 1 /\ n <= RingMinutes /\ n + shift = k + 1
  /\ shift = 1 => k = RingMinutes
  /\ \A i \in 1..(n - 1) : i + shift \in 1..k /\ out[i] = done[i + shift]
  /\ out[n] = minute

LEMMA PushesOut ==
  ASSUME WholePrices, NEW done \in Seq(Minute), NEW minute \in Minute, Len(done) <= RingMinutes
  PROVE  \E k \in Nat, n \in Nat, shift \in {0, 1} :
           Pushed(done, PushDone(done, minute), minute, k, n, shift)
<1>0. PICK k \in Nat : Len(done) = k /\ DOMAIN done = 1..k
  OBVIOUS
<1>1. CASE k = RingMinutes
  <2>1. k >= 1
    BY <1>1 DEF WholePrices
  <2>2. Tail(done) \in Seq(Minute) /\ Len(Tail(done)) = k - 1 /\ \A i \in 1..(k - 1) : Tail(done)[i] = done[i + 1]
    BY <1>0, <2>1
  <2>3. PushDone(done, minute) = Append(Tail(done), minute)
    BY <1>0, <1>1 DEF PushDone
  <2> DEFINE rest == Tail(done)
  <2>a. rest \in Seq(Minute) /\ Len(rest) = k - 1 /\ \A i \in 1..(k - 1) : rest[i] = done[i + 1]
    BY <2>2
  <2> HIDE DEF rest
  <2> DEFINE new == Append(rest, minute)
  <2>4. PushDone(done, minute) = new
    BY <2>3 DEF rest
  <2>5. Len(new) = k /\ DOMAIN new = 1..k
    BY <2>a, <2>1
  <2>6. new[k] = minute /\ \A i \in 1..(k - 1) : new[i] = rest[i]
    BY <2>a, <2>1
  <2> HIDE DEF new
  <2>7. \A i \in 1..(k - 1) : i + 1 \in 1..k /\ new[i] = done[i + 1]
    BY <2>a, <2>1, <2>6
  <2>8. Pushed(done, new, minute, k, k, 1)
    BY <1>0, <1>1, <2>1, <2>5, <2>6, <2>7 DEF Pushed
  <2> QED BY <2>4, <2>8
<1>2. CASE k # RingMinutes
  <2> DEFINE new == Append(done, minute)
  <2>1. PushDone(done, minute) = new
    BY <1>0, <1>2 DEF PushDone
  <2>2. k + 1 <= RingMinutes
    BY <1>0, <1>2 DEF WholePrices
  <2>3. Len(new) = k + 1 /\ DOMAIN new = 1..(k + 1) /\ new[k + 1] = minute
    BY <1>0
  <2>4. \A i \in 1..k : new[i] = done[i]
    BY <1>0
  <2> HIDE DEF new
  <2> DEFINE n == k + 1
  <2>5. n \in Nat /\ n >= 1 /\ n - 1 = k /\ n + 0 = k + 1
    OBVIOUS
  <2>6. \A i \in 1..(n - 1) : i + 0 \in 1..k /\ new[i] = done[i + 0]
    BY <2>4
  <2>7. Len(new) = n /\ DOMAIN new = 1..n /\ new[n] = minute /\ n <= RingMinutes
    BY <2>2, <2>3
  <2> HIDE DEF n
  <2>8. Pushed(done, new, minute, k, n, 0)
    BY <1>0, <2>5, <2>6, <2>7 DEF Pushed
  <2> QED BY <2>1, <2>5, <2>8
<1> QED BY <1>1, <1>2

QuotesAfter(agg, at, quote, quotes) ==
  IF Verdict(agg, at, quote) = "folded" THEN Append(quotes, [at |-> at, quote |-> quote]) ELSE quotes

(* Folding a quote keeps every minute what its quotes make it. *)
LEMMA FoldRecounts ==
  ASSUME WholePrices, NEW agg \in Series, InOrder(agg), NEW at \in Nat,
         NEW quote \in Quotes \cup {NoQuote}, NEW quotes, Recounted(agg, quotes)
  PROVE  Recounted(Fold(agg, at, quote), QuotesAfter(agg, at, quote, quotes))
<1> DEFINE time == MinuteOf(at)
           new == Fold(agg, at, quote)
           stamped == [at |-> at, quote |-> quote]
           more == Append(quotes, stamped)
<1>1. CASE Verdict(agg, at, quote) = "dropped"
  <2>1. new = [agg EXCEPT !.dropped = @ + 1] /\ QuotesAfter(agg, at, quote, quotes) = quotes
    BY <1>1 DEF Fold, QuotesAfter
  <2> HIDE DEF new
  <2>2. new.done = agg.done /\ new.forming = agg.forming
    BY <2>1 DEF Series
  <2> QED BY <2>1, <2>2 DEF new, Recounted, Placed
<1>2. CASE Verdict(agg, at, quote) = "duplicate"
  <2>1. new = [agg EXCEPT !.duplicates = @ + 1] /\ QuotesAfter(agg, at, quote, quotes) = quotes
    BY <1>2 DEF Fold, QuotesAfter
  <2> HIDE DEF new
  <2>2. new.done = agg.done /\ new.forming = agg.forming
    BY <2>1 DEF Series
  <2> QED BY <2>1, <2>2 DEF new, Recounted, Placed
<1>3. CASE Verdict(agg, at, quote) = "folded"
  <2>1. /\ quote \in Quotes /\ stamped \in FoldedQuotes /\ stamped.at = at /\ stamped.quote = quote
        /\ agg.last # NotYet => at >= agg.last.at
    BY <1>3 DEF Verdict, FoldedQuotes, Series, StampedQuotes
  <2>2. time \in Int /\ (agg.last # NotYet => MinuteOf(agg.last.at) \in Int /\ time >= MinuteOf(agg.last.at))
    BY <2>1, MinutesGoUp DEF InOrder
  <2>3. QuotesAfter(agg, at, quote, quotes) = more
    BY <1>3 DEF QuotesAfter
  <2>4. quotes \in Seq(FoldedQuotes)
    BY DEF Recounted
  <2>5. more \in Seq(FoldedQuotes)
        /\ \A i \in DOMAIN more : (i \in DOMAIN quotes /\ more[i] = quotes[i]) \/ more[i] = stamped
    <3>1. PICK n \in Nat : /\ DOMAIN quotes = 1..n /\ DOMAIN more = 1..(n + 1)
                           /\ \A i \in 1..n : more[i] = quotes[i]
                           /\ more[n + 1] = stamped
      BY <2>1, <2>4, Appends
    <3>2. more \in Seq(FoldedQuotes)
      BY <2>1, <2>4, Appends
    <3> HIDE DEF more, stamped
    <3> QED BY <3>1, <3>2
  <2>6. \A i \in DOMAIN quotes : quotes[i] \in FoldedQuotes
    BY <2>4
  <2>7. \A i \in DOMAIN quotes : MinuteOf(quotes[i].at) \in Int
    BY <2>6, MinutesGoUp DEF FoldedQuotes
  <2>8. agg.done \in Seq(Minute) /\ \A i \in DOMAIN agg.done : agg.done[i] \in Minute
    BY DEF Series
  <2>9. \A i \in DOMAIN agg.done : agg.done[i].time \in Int
    BY <2>8 DEF Minute
  <2>10. agg.forming # << >> => agg.forming[1] \in Minute /\ agg.forming[1].time \in Int
    <3>1. agg.forming \in Seq(Minute)
      BY DEF Series
    <3>2. agg.forming # << >> => agg.forming[1] \in Minute
      BY <3>1
    <3> QED BY <3>2 DEF Minute
  <2> DEFINE same == agg.forming # << >> /\ agg.forming[1].time = time
  <2>11. CASE same
    <3> DEFINE grown == FoldMinute(agg.forming[1], quote)
    <3>1. new = [agg EXCEPT !.last = stamped, !.forming[1] = grown]
      BY <1>3, <2>11 DEF Fold
    <3>2. agg.forming = <<agg.forming[1]>>
      BY <2>11 DEF Recounted
    <3>3. new.done = agg.done /\ new.forming = [agg.forming EXCEPT ![1] = grown]
      <4> HIDE DEF new, grown, stamped
      <4> QED BY <3>1 DEF Series
    <3>4. [agg.forming EXCEPT ![1] = grown] = <<grown>>
      <4> HIDE DEF grown
      <4> QED BY <3>2
    <3>5. grown.time = time
      BY <2>1, <2>10, <2>11, FoldsMinute
    <3>6. Groups(grown, more, time)
      <4>1. Groups(agg.forming[1], quotes, time)
        BY <2>11 DEF Recounted
      <4> HIDE DEF stamped, time
      <4>2. Groups(FoldMinute(agg.forming[1], stamped.quote), Append(quotes, stamped), time)
        BY <2>1, <2>4, <4>1, GroupsMore DEF time
      <4> QED BY <2>1, <4>2
    <3>7. ASSUME NEW i \in DOMAIN agg.done
          PROVE  Groups(agg.done[i], more, agg.done[i].time)
      <4>1. Groups(agg.done[i], quotes, agg.done[i].time)
        BY DEF Recounted
      <4>2. agg.done[i].time # MinuteOf(stamped.at)
        BY <2>1, <2>2, <2>9, <2>11 DEF InOrder
      <4> HIDE DEF stamped
      <4> QED BY <2>1, <2>4, <4>1, <4>2, GroupsStay
    <3>8. ASSUME NEW i \in DOMAIN more
          PROVE  Placed(new, MinuteOf(more[i].at))
      <4>1. CASE i \in DOMAIN quotes /\ more[i] = quotes[i]
        <5>1. Placed(agg, MinuteOf(quotes[i].at))
          BY <4>1 DEF Recounted
        <5> HIDE DEF new, grown, more, time
        <5> QED BY <2>11, <3>3, <3>4, <3>5, <4>1, <5>1 DEF Placed
      <4>2. CASE more[i] = stamped
        <5> HIDE DEF new, grown, more
        <5> QED BY <2>1, <3>3, <3>4, <3>5, <4>2 DEF Placed
      <4> QED BY <2>5, <4>1, <4>2
    <3>9. Len(agg.done) <= RingMinutes
      BY DEF Recounted
    <3> HIDE DEF new, grown, more, time
    <3>10. new.forming = <<grown>> /\ <<grown>>[1] = grown /\ <<grown>> # << >>
      BY <3>3, <3>4
    <3> QED BY <2>3, <2>5, <3>3, <3>5, <3>6, <3>7, <3>8, <3>9, <3>10 DEF Recounted, new
  <2>12. CASE ~same
    <3> DEFINE done == IF agg.forming = << >> THEN agg.done ELSE PushDone(agg.done, agg.forming[1])
               minute == StartMinute(time, quote)
    <3>1. new = [agg EXCEPT !.last = stamped, !.done = done, !.forming = <<minute>>]
      BY <1>3, <2>12 DEF Fold
    <3>2. new.done = done /\ new.forming = <<minute>>
      <4> HIDE DEF new, done, minute, stamped
      <4> QED BY <3>1 DEF Series
    <3>3. minute.time = time /\ <<minute>>[1] = minute /\ <<minute>> # << >>
      BY <2>1, <2>2, StartsMinute
    <3>4. \A i \in DOMAIN quotes : MinuteOf(quotes[i].at) < time
      <4>1. CASE agg.forming = << >>
        <5>1. quotes = << >>
          BY <4>1 DEF Recounted
        <5>2. DOMAIN quotes = {}
          BY <5>1
        <5> QED BY <5>2
      <4>2. CASE agg.forming # << >>
        <5>1. agg.forming[1].time < time
          BY <2>2, <2>10, <2>12, <4>2 DEF InOrder
        <5>2. \A i \in DOMAIN agg.done : agg.done[i].time < agg.forming[1].time
          BY <4>2 DEF InOrder
        <5>3. Len(agg.done) = RingMinutes => 1 \in DOMAIN agg.done
          BY <2>8 DEF WholePrices
        <5>4. ASSUME NEW i \in DOMAIN quotes
              PROVE  MinuteOf(quotes[i].at) < time
          <6>1. Placed(agg, MinuteOf(quotes[i].at))
            BY DEF Recounted
          <6>2. MinuteOf(quotes[i].at) \in Int
            BY <2>7
          <6> HIDE DEF time
          <6> QED BY <2>2, <2>9, <2>10, <4>2, <5>1, <5>2, <5>3, <6>1, <6>2 DEF Placed
        <5> QED BY <5>4
      <4> QED BY <4>1, <4>2
    <3>5. Groups(minute, more, time)
      <4>1. AtMinute(quotes, time) = {}
        <5> HIDE DEF time
        <5> QED BY <2>2, <2>7, <3>4 DEF AtMinute
      <4> HIDE DEF stamped, time
      <4>2. Groups(StartMinute(time, stamped.quote), Append(quotes, stamped), time)
        BY <2>1, <2>2, <2>4, <4>1, GroupsOne DEF time
      <4> QED BY <2>1, <4>2
    <3>6. /\ Len(done) <= RingMinutes
          /\ \A i \in DOMAIN done : Groups(done[i], more, done[i].time)
          /\ \A i \in DOMAIN quotes :
               LET t == MinuteOf(quotes[i].at)
               IN  \/ \E j \in DOMAIN done : done[j].time = t
                   \/ Len(done) = RingMinutes /\ t < done[1].time
      <4>1. CASE agg.forming = << >>
        <5>1. done = << >> /\ quotes = << >>
          BY <4>1 DEF InOrder, Recounted
        <5> HIDE DEF done
        <5>2. Len(done) = 0 /\ DOMAIN done = {} /\ DOMAIN quotes = {}
          BY <5>1
        <5> QED BY <5>2 DEF WholePrices
      <4>2. CASE agg.forming # << >>
        <5> DEFINE old == agg.forming[1]
        <5>1. done = PushDone(agg.done, old) /\ old \in Minute /\ old.time \in Int /\ old.time < time
              /\ Len(agg.done) <= RingMinutes
          BY <2>2, <2>10, <2>12, <4>2 DEF InOrder, Recounted
        <5>a. PICK k \in Nat, n \in Nat, shift \in {0, 1} : Pushed(agg.done, done, old, k, n, shift)
          <6> HIDE DEF done, old
          <6>1. \E k \in Nat, n \in Nat, shift \in {0, 1} :
                  Pushed(agg.done, PushDone(agg.done, old), old, k, n, shift)
            BY <2>8, <5>1, PushesOut
          <6> QED BY <5>1, <6>1
        <5>2. /\ Len(agg.done) = k /\ DOMAIN agg.done = 1..k
              /\ Len(done) = n /\ DOMAIN done = 1..n
              /\ n >= 1 /\ n <= RingMinutes /\ n + shift = k + 1
              /\ shift = 1 => k = RingMinutes
              /\ \A i \in 1..(n - 1) : i + shift \in 1..k /\ done[i] = agg.done[i + shift]
              /\ done[n] = old
          <6> HIDE DEF done, old
          <6> QED BY <5>a, Zenon DEF Pushed
        <5>3. \A i \in 1..k : /\ Groups(agg.done[i], quotes, agg.done[i].time)
                               /\ agg.done[i].time \in Int /\ agg.done[i].time < old.time
          BY <2>9, <4>2, <5>2 DEF InOrder, Recounted
        <5>4. \A i, j \in 1..k : i < j => agg.done[i].time < agg.done[j].time
          BY <5>2 DEF InOrder
        <5>5. Groups(old, quotes, old.time)
          BY <4>2 DEF Recounted
        <5>6. \A i \in DOMAIN quotes :
                 LET t == MinuteOf(quotes[i].at)
                 IN  \/ t = old.time
                     \/ \E j \in 1..k : agg.done[j].time = t
                     \/ k = RingMinutes /\ t < agg.done[1].time
          BY <5>2 DEF Recounted, Placed
        <5> HIDE DEF done, old, more, time
        <5>7. ASSUME NEW i \in 1..n
              PROVE  Groups(done[i], quotes, done[i].time) /\ done[i].time \in Int /\ done[i].time < time
          <6>1. CASE i = n
            BY <5>1, <5>2, <5>5, <6>1
          <6>2. CASE i # n
            <7>1. i \in 1..(n - 1)
              BY <6>2
            <7>2. PICK j \in 1..k : done[i] = agg.done[j]
              BY <5>2, <7>1
            <7>3. agg.done[j].time < time
              BY <2>2, <5>1, <5>3
            <7> QED BY <5>3, <7>2, <7>3
          <6> QED BY <6>1, <6>2
        <5>8. ASSUME NEW i \in 1..n
              PROVE  Groups(done[i], more, done[i].time)
          <6>1. MinuteOf(stamped.at) # done[i].time
            BY <2>1, <2>2, <5>7 DEF time
          <6>2. Groups(done[i], quotes, done[i].time)
            BY <5>7
          <6> HIDE DEF stamped
          <6> QED BY <2>1, <2>4, <6>1, <6>2, GroupsStay DEF more
        <5>9. ASSUME NEW i \in DOMAIN quotes, NEW t \in Int, t = MinuteOf(quotes[i].at)
              PROVE  (\E j \in 1..n : done[j].time = t) \/ (n = RingMinutes /\ t < done[1].time)
          <6>1. CASE t = old.time
            <7>1. n \in 1..n
              BY <5>2
            <7> QED BY <5>2, <6>1, <7>1
          <6>2. ASSUME NEW j \in 1..k, agg.done[j].time = t
                PROVE  (\E m \in 1..n : done[m].time = t) \/ (n = RingMinutes /\ t < done[1].time)
            <7>1. CASE j - shift \in 1..(n - 1)
              <8>1. done[j - shift] = agg.done[j - shift + shift] /\ j - shift + shift = j
                BY <5>2, <7>1
              <8>2. j - shift \in 1..n
                BY <7>1
              <8> QED BY <6>2, <8>1, <8>2
            <7>2. CASE j - shift \notin 1..(n - 1)
              <8>1. shift = 1 /\ j = 1 /\ n = k /\ k = RingMinutes
                BY <5>2, <7>2
              <8>2. CASE n = 1
                <9>1. done[1] = old
                  BY <5>2, <8>2
                <9> QED BY <5>3, <6>2, <8>1, <9>1
              <8>3. CASE n # 1
                <9>1. 1 \in 1..(n - 1) /\ 2 \in 1..k
                  BY <5>2, <8>1, <8>3
                <9>2. done[1] = agg.done[2]
                  BY <5>2, <8>1, <9>1
                <9>3. agg.done[1].time < agg.done[2].time
                  BY <5>4, <8>1, <9>1
                <9> QED BY <6>2, <8>1, <9>2, <9>3
              <8> QED BY <8>2, <8>3
            <7> QED BY <7>1, <7>2
          <6>3. CASE k = RingMinutes /\ t < agg.done[1].time
            <7>1. k >= 1 /\ shift = 1 /\ n = k
              BY <5>2, <6>3 DEF WholePrices
            <7>2. t < done[1].time
              <8>1. CASE n = 1
                <9>1. done[1] = old /\ 1 \in 1..k
                  BY <5>2, <7>1, <8>1
                <9> QED BY <5>1, <5>3, <6>3, <9>1
              <8>2. CASE n # 1
                <9>1. 1 \in 1..(n - 1) /\ 1 \in 1..k /\ 2 \in 1..k
                  BY <5>2, <7>1, <8>2
                <9>2. done[1] = agg.done[2]
                  BY <5>2, <7>1, <9>1
                <9>3. agg.done[1].time < agg.done[2].time /\ agg.done[1].time \in Int /\ agg.done[2].time \in Int
                  BY <5>3, <5>4, <9>1
                <9> QED BY <6>3, <9>2, <9>3
              <8> QED BY <8>1, <8>2
            <7> QED BY <6>3, <7>1, <7>2
          <6> QED BY <5>6, <5>9, <6>1, <6>2, <6>3
        <5> QED BY <2>7, <5>2, <5>8, <5>9
      <4> QED BY <4>1, <4>2
    <3>7. ASSUME NEW i \in DOMAIN more
          PROVE  Placed(new, MinuteOf(more[i].at))
      <4>1. CASE i \in DOMAIN quotes /\ more[i] = quotes[i]
        <5> HIDE DEF new, done, more, minute, time
        <5> QED BY <3>2, <3>6, <4>1 DEF Placed
      <4>2. CASE more[i] = stamped
        <5> HIDE DEF new, done, more, minute
        <5> QED BY <2>1, <3>2, <3>3, <4>2 DEF Placed
      <4> QED BY <2>5, <4>1, <4>2
    <3> HIDE DEF new, done, more, minute, time
    <3> QED BY <2>3, <2>5, <3>2, <3>3, <3>5, <3>6, <3>7 DEF Recounted, new
  <2> QED BY <2>11, <2>12
<1>4. Verdict(agg, at, quote) \in {"dropped", "duplicate", "folded"}
  BY DEF Verdict
<1> QED BY <1>1, <1>2, <1>3, <1>4

LEMMA RecountedIsGrouped ==
  ASSUME WholePrices, Kept, Recounted(minutes, quoted)
  PROVE  MinutesAreTheQuotes
<1> DEFINE shown == minutes.done \o minutes.forming
<1>1. /\ minutes \in Series /\ minutes.done \in Seq(Minute) /\ InOrder(minutes)
      /\ \A i \in DOMAIN minutes.done : minutes.done[i] \in Minute
  BY DEF Kept, MinutesTyped, Series
<1>2. \A i \in DOMAIN minutes.done : minutes.done[i].time \in Int
  BY <1>1 DEF Minute
<1>3. quoted \in Seq(FoldedQuotes) /\ Len(minutes.done) <= RingMinutes
  BY DEF Recounted
<1>4. CASE minutes.forming = << >>
  <2>1. quoted = << >> /\ minutes.done = << >>
    BY <1>1, <1>4 DEF Recounted, InOrder
  <2>2. shown = << >>
    BY <1>4, <2>1
  <2> HIDE DEF shown
  <2>3. DOMAIN shown = {} /\ QuotedMinutes = {}
    BY <2>1, <2>2 DEF QuotedMinutes
  <2>4. Len(minutes.forming) <= 1
    BY <1>4
  <2> QED BY <1>3, <2>3, <2>4 DEF MinutesAreTheQuotes, shown
<1>5. CASE minutes.forming # << >>
  <2> DEFINE last == minutes.forming[1]
  <2>1. minutes.forming = <<last>>
    BY <1>5 DEF Recounted
  <2>2. last \in Minute
    <3>1. minutes.forming \in Seq(Minute)
      BY <1>1 DEF Series
    <3> QED BY <1>5, <3>1
  <2>3. last.time \in Int
    BY <2>2 DEF Minute
  <2>4. \A i \in DOMAIN minutes.done : minutes.done[i].time < last.time
    BY <1>1, <1>5 DEF InOrder
  <2>5. \A i, j \in DOMAIN minutes.done : i < j => minutes.done[i].time < minutes.done[j].time
    BY <1>1 DEF InOrder
  <2>6. /\ \A i \in DOMAIN minutes.done : Groups(minutes.done[i], quoted, minutes.done[i].time)
        /\ Groups(last, quoted, last.time)
        /\ \A i \in DOMAIN quoted : Placed(minutes, MinuteOf(quoted[i].at))
    BY <1>5 DEF Recounted
  <2>7. PICK n \in Nat : /\ Len(minutes.done) = n /\ DOMAIN minutes.done = 1..n
                         /\ DOMAIN shown = 1..(n + 1)
                         /\ \A i \in 1..n : shown[i] = minutes.done[i]
                         /\ shown[n + 1] = last
    <3> HIDE DEF last
    <3>1. shown = minutes.done \o <<last>>
      BY <2>1
    <3>2. Len(minutes.done) \in Nat /\ DOMAIN minutes.done = 1..Len(minutes.done)
      BY <1>1
    <3>3. Len(shown) = Len(minutes.done) + 1 /\ DOMAIN shown = 1..(Len(minutes.done) + 1)
      BY <1>1, <2>2, <3>1
    <3>4. \A i \in 1..Len(minutes.done) : shown[i] = minutes.done[i]
      BY <1>1, <2>2, <3>1
    <3>5. shown[Len(minutes.done) + 1] = last
      BY <1>1, <2>2, <3>1
    <3> HIDE DEF shown
    <3> QED BY <3>2, <3>3, <3>4, <3>5, Zenon
  <2>13. Len(minutes.forming) <= 1
    <3> HIDE DEF last
    <3> QED BY <2>1
  <2> HIDE DEF shown, last
  <2>8. ASSUME NEW i \in DOMAIN shown
        PROVE  shown[i] = Grouped(quoted, shown[i].time)
    <3>1. Groups(shown[i], quoted, shown[i].time)
      BY <2>6, <2>7
    <3> QED BY <1>3, <3>1, GroupsIsGrouped
  <2>9. \A i, j \in DOMAIN shown : i < j => shown[i].time < shown[j].time
    <3> SUFFICES ASSUME NEW i \in 1..(n + 1), NEW j \in 1..(n + 1), i < j
                 PROVE  shown[i].time < shown[j].time
      BY <2>7
    <3>1. i \in 1..n /\ (j \in 1..n \/ j = n + 1)
      OBVIOUS
    <3> QED BY <2>4, <2>5, <2>7, <3>1
  <2>10. \A i \in DOMAIN shown : shown[i].time \in QuotedMinutes
    <3>1. ASSUME NEW b, NEW time, Groups(b, quoted, time)
          PROVE  b.time \in QuotedMinutes
      <4>1. b.time = time /\ \E i \in AtMinute(quoted, time) : TRUE
        BY <3>1 DEF Groups
      <4> QED BY <4>1 DEF AtMinute, QuotedMinutes
    <3> QED BY <2>6, <2>7, <3>1
  <2>11. ASSUME NEW i \in DOMAIN quoted, NEW time, time = MinuteOf(quoted[i].at),
                \A j \in DOMAIN shown : shown[j].time # time
         PROVE  Len(minutes.done) = RingMinutes /\ time < shown[1].time
    <3>1. Placed(minutes, time)
      BY <2>6, <2>11
    <3>2. last.time # time /\ \A j \in 1..n : minutes.done[j].time # time
      BY <2>7, <2>11
    <3>3. Len(minutes.done) = RingMinutes /\ time < minutes.done[1].time
      BY <2>7, <3>1, <3>2 DEF Placed, last
    <3>4. 1 \in 1..n
      BY <2>7, <3>3 DEF WholePrices
    <3> QED BY <2>7, <3>3, <3>4
  <2>12. \A time \in QuotedMinutes \ {shown[i].time : i \in DOMAIN shown} :
           Len(minutes.done) = RingMinutes /\ time < shown[1].time
    BY <2>11 DEF QuotedMinutes
  <2> QED BY <1>3, <2>8, <2>9, <2>10, <2>12, <2>13 DEF MinutesAreTheQuotes, shown
<1> QED BY <1>4, <1>5

LEMMA StepRecounts ==
  ASSUME WholePrices, Kept, Recounted(minutes, quoted), [MinutesNext]_minuteVars
  PROVE  Recounted(minutes, quoted)'
<1>1. CASE UNCHANGED <<minutes, quoted>>
  <2> DEFINE now == minutes'  then == quoted'
  <2>1. Recounted(now, then)
    <3>1. now = minutes /\ then = quoted
      BY <1>1
    <3> HIDE DEF now, then
    <3> QED BY <3>1
  <2> QED BY <2>1 DEF Recounted, Placed, Groups, AtMinute, MidsOf, SpreadSum
<1>2. ASSUME NEW s \in Streams, OnTick(s) PROVE Recounted(minutes, quoted)'
  <2> DEFINE posting == posted[s]
  <2>1. /\ minutes' = Fold(minutes, posting.at, posting.quote) /\ posting # NotYet
        /\ quoted' = IF Verdict(minutes, posting.at, posting.quote) = "folded"
                     THEN Append(quoted, posting) ELSE quoted
    BY <1>2 DEF OnTick
  <2>2. posting \in StampedQuotes
    BY DEF Kept, MinutesTyped
  <2>3. posting.at \in Nat /\ posting.quote \in Quotes \cup {NoQuote}
        /\ posting = [at |-> posting.at, quote |-> posting.quote]
    BY <2>1, <2>2 DEF Kept, MinutesTyped, StampedQuotes
  <2> HIDE DEF posting
  <2>4. quoted' = QuotesAfter(minutes, posting.at, posting.quote, quoted)
    BY <2>1, <2>3 DEF QuotesAfter
  <2>5. minutes \in Series /\ InOrder(minutes)
    BY DEF Kept, MinutesTyped
  <2>6. Recounted(Fold(minutes, posting.at, posting.quote),
                  QuotesAfter(minutes, posting.at, posting.quote, quoted))
    BY <2>3, <2>5, FoldRecounts
  <2> DEFINE now == minutes'  then == quoted'
  <2>7. Recounted(now, then)
    BY <2>1, <2>4, <2>6
  <2> QED BY <2>7 DEF Recounted, Placed, Groups, AtMinute, MidsOf, SpreadSum
<1>3. CASE RestartMinutes
  <2>1. minutes'.done = << >> /\ minutes'.forming = << >> /\ quoted' = << >>
    BY <1>3 DEF RestartMinutes, NoMinutes
  <2> DEFINE now == minutes'  then == quoted'
  <2>2. now.done = << >> /\ now.forming = << >> /\ then = << >>
    BY <2>1
  <2> HIDE DEF now, then
  <2>3. Recounted(now, then)
    BY <2>2 DEF Recounted, WholePrices
  <2> QED BY <2>3 DEF now, then
<1>4. \/ UNCHANGED <<minutes, quoted>> \/ RestartMinutes \/ \E s \in Streams : OnTick(s)
  BY DEF MinutesNext, ClockTurns, TickArrives, Ask, minuteVars
<1> QED BY <1>1, <1>2, <1>3, <1>4

(* What the hub holds is what grouping the quotes it folded by their minute *)
(* gives, for any number of pollers and quotes, any ring, and a clock that  *)
(* is set back at will.                                                     *)
THEOREM MinutesAreQuoted ==
  ASSUME WholePrices
  PROVE  MinutesSpec => []MinutesAreTheQuotes
<1>1. MinutesInit => Kept /\ Recounted(minutes, quoted)
  <2> SUFFICES ASSUME MinutesInit PROVE Kept /\ Recounted(minutes, quoted)
    OBVIOUS
  <2>1. minutes.done = << >> /\ minutes.forming = << >> /\ quoted = << >>
    BY DEF MinutesInit, NoMinutes
  <2>2. Recounted(minutes, quoted)
    BY <2>1 DEF Recounted, WholePrices
  <2> QED BY <2>2, BeginsKept
<1>2. Kept /\ Recounted(minutes, quoted) /\ [MinutesNext]_minuteVars => (Kept /\ Recounted(minutes, quoted))'
  BY StepKeeps, StepRecounts
<1>3. Kept /\ Recounted(minutes, quoted) => MinutesAreTheQuotes
  BY RecountedIsGrouped
<1> QED BY <1>1, <1>2, <1>3, PTL DEF MinutesSpec

-----------------------------------------------------------------------------
(***************************************************************************)
(* That no position of the book is traded twice, for every book, broker    *)
(* and week, however the polls, the stops and the bars interleave and      *)
(* whenever the executor is started again.                                 *)
(***************************************************************************)
(* No value is no record and no step of a poll; a flag is set or not. *)
NoneIsNothing ==
  /\ Mirrors \subseteq BOOLEAN
  /\ \A open, pending, late : [open |-> open, pending |-> pending, late |-> late] # None
  /\ None \notin {"off", "top", "send", "flatten", "asleep", "positions", "orders", "pending",
                  "ahead", "reconcile", "reopen", "place", "open"}

(* Every trade of the account, over or not. *)
View == {Closed(p) : p \in account.positions \cup account.closed}
Known ==
  {book.open} \cup (IF mirror.seen = None THEN {} ELSE {mirror.seen.open})

WellFormed ==
  /\ mirror = [at |-> mirror.at, then |-> mirror.then, weekend |-> mirror.weekend,
               seen |-> mirror.seen, held |-> mirror.held, waiting |-> mirror.waiting,
               queue |-> mirror.queue, ahead |-> mirror.ahead, pending |-> mirror.pending,
               healthy |-> mirror.healthy]
  /\ book = [open |-> book.open, pending |-> book.pending, last |-> book.last,
             decided |-> book.decided]
  /\ account = [up |-> account.up, positions |-> account.positions, orders |-> account.orders,
                closed |-> account.closed, tickets |-> account.tickets]
  /\ bar \in Nat /\ book.decided \in Nat /\ mirror.pending \in BOOLEAN

(* Without --mirror-pending nothing rests, in the book or at the broker.    *)
NothingRests ==
  /\ ~mirror.pending
  /\ mirror.at \notin {"orders", "pending", "ahead", "place"}
  /\ mirror.then \notin {"orders", "pending", "ahead", "place", "reconcile", "open", "positions"}
  /\ account.orders = {} /\ book.pending = None

(* What a poll found flat is flat until the poll itself opens: a terminal   *)
(* that was silent then is silent still.                                    *)
FoundFlat ==
  /\ mirror.at # "send" => mirror.then = None
  /\ mirror.at \in {"positions", "reconcile"} => mirror.seen # None
  /\ (mirror.at \in {"open", "reopen"} \/ mirror.then = "reopen") =>
       mirror.seen # None /\ mirror.seen.open # None
  /\ account.up /\ (mirror.at = "open" \/ (mirror.at = "reconcile" /\ mirror.held = {})) =>
       account.positions = {}

(* Every trade of a position the book holds, or a poll saw it hold, is on   *)
(* its side and not older: already_taken will find it.                      *)
TradesAreKnown ==
  /\ \A t \in View : t.of \in 1..book.decided
  /\ \A t, u \in View : t.of = u.of => t.ticket = u.ticket
  /\ \A o \in Known \ {None} :
       /\ o.id \in 1..book.decided /\ o.entry \in Int /\ o.entry <= bar
       /\ \A t \in View : t.of = o.id => t.side = o.side /\ t.at \in Int /\ t.at >= o.entry
  /\ \A o, p \in Known \ {None} : o.id = p.id => o = p

Traded ==
  /\ WellFormed
  /\ ~mirror.pending => NothingRests /\ FoundFlat /\ TradesAreKnown

-----------------------------------------------------------------------------
(* What is not an opening, of the book or of the account, changes no trade. *)
LEMMA TradesStay ==
  ASSUME TradesAreKnown, View' = View, Known' \subseteq Known, bar \in Nat,
         bar' \in Nat, bar' >= bar, book'.decided = book.decided
  PROVE  TradesAreKnown'
BY DEF TradesAreKnown

LEMMA LeavingIsNoTrade ==
  ASSUME WellFormed, NEW p \in account.positions, account' = Left(account, p)
  PROVE  View' = View /\ account'.positions \subseteq account.positions
         /\ account'.orders = account.orders /\ account'.up = account.up
<1>1. account'.positions = account.positions \ {p}
  BY DEF Left, WellFormed
<1>2. account'.closed = account.closed \cup {Closed(p)}
  BY DEF Left, WellFormed
<1>3. Closed(Closed(p)) = Closed(p)
  BY DEF Closed
<1>4. View' = View
  <2>1. View' \subseteq View
    <3> SUFFICES ASSUME NEW q \in account'.positions \cup account'.closed
                 PROVE  Closed(q) \in View
      BY DEF View
    <3>1. CASE q = Closed(p)
      BY <1>3, <3>1 DEF View
    <3>2. CASE q # Closed(p)
      BY <1>1, <1>2, <3>2 DEF View
    <3> QED BY <3>1, <3>2
  <2>2. View \subseteq View'
    <3> SUFFICES ASSUME NEW q \in account.positions \cup account.closed
                 PROVE  Closed(q) \in View'
      BY DEF View
    <3>1. CASE q = p
      <4>1. Closed(p) \in account'.closed
        BY <1>2
      <4> QED BY <1>3, <3>1, <4>1 DEF View
    <3>2. CASE q # p
      BY <1>1, <1>2, <3>2 DEF View
    <3> QED BY <3>1, <3>2
  <2> QED BY <2>1, <2>2
<1> QED BY <1>1, <1>4 DEF Left, WellFormed

-----------------------------------------------------------------------------
(* The steps of a poll that send nothing *)

MirrorStep ==
  \/ Starts \/ SeesStop \/ WeekendPoll \/ Flattens \/ ReadsStatus \/ ReadsPositions
  \/ ReadsOrders \/ ReconcilesPending \/ FilledAhead \/ Reconciles \/ Reopens

(* What a loop is after it sends requests, or has none to send. *)
LEMMA SendingGoesOn ==
  ASSUME NEW loop, NEW requests, NEW next,
         loop = [at |-> loop.at, then |-> loop.then, weekend |-> loop.weekend,
                 seen |-> loop.seen, held |-> loop.held, waiting |-> loop.waiting,
                 queue |-> loop.queue, ahead |-> loop.ahead, pending |-> loop.pending,
                 healthy |-> loop.healthy]
  PROVE  \E at, then :
           /\ Sending(loop, requests, next) =
                [at |-> at, then |-> then, weekend |-> loop.weekend,
                 seen |-> loop.seen, held |-> loop.held, waiting |-> loop.waiting,
                 queue |-> requests, ahead |-> loop.ahead, pending |-> loop.pending,
                 healthy |-> loop.healthy]
           /\ \/ requests = {} /\ at = next /\ then = None
              \/ requests # {} /\ at = "send" /\ then = next
<1>1. CASE requests = {}
  <2>1. Sending(loop, requests, next) = [loop EXCEPT !.at = next, !.queue = {}, !.then = None]
    BY <1>1 DEF Sending
  <2>2. Sending(loop, requests, next) =
                [at |-> next, then |-> None, weekend |-> loop.weekend,
                 seen |-> loop.seen, held |-> loop.held, waiting |-> loop.waiting,
                 queue |-> requests, ahead |-> loop.ahead, pending |-> loop.pending,
                 healthy |-> loop.healthy]
    BY <1>1, <2>1
  <2> QED BY <1>1, <2>2
<1>2. CASE requests # {}
  <2>1. Sending(loop, requests, next) =
          [loop EXCEPT !.at = "send", !.queue = requests, !.then = next]
    BY <1>2 DEF Sending
  <2>2. Sending(loop, requests, next) =
                [at |-> "send", then |-> next, weekend |-> loop.weekend,
                 seen |-> loop.seen, held |-> loop.held, waiting |-> loop.waiting,
                 queue |-> requests, ahead |-> loop.ahead, pending |-> loop.pending,
                 healthy |-> loop.healthy]
    BY <2>1
  <2> QED BY <1>2, <2>2
<1> QED BY <1>1, <1>2

LEMMA MirrorKeepsTrades ==
  ASSUME NoneIsNothing, Traded, MirrorStep
  PROVE  Traded'
<1>0. mirror = [at |-> mirror.at, then |-> mirror.then, weekend |-> mirror.weekend,
                seen |-> mirror.seen, held |-> mirror.held, waiting |-> mirror.waiting,
                queue |-> mirror.queue, ahead |-> mirror.ahead, pending |-> mirror.pending,
                healthy |-> mirror.healthy]
  BY DEF Traded, WellFormed
<1>1. UNCHANGED <<bar, book, account>>
  BY DEF MirrorStep, Starts, SeesStop, WeekendPoll, Flattens, ReadsStatus, ReadsPositions,
         ReadsOrders, ReconcilesPending, FilledAhead, Reconciles, Reopens, OnlyMirror, Elsewhere
<1>2. View' = View
  BY <1>1 DEF View
<1>3. ASSUME WellFormed', mirror'.pending = mirror.pending,
             ~mirror.pending => NothingRests' /\ FoundFlat' /\ Known' \subseteq Known
      PROVE  Traded'
  <2>1. CASE mirror.pending
    BY <1>3, <2>1 DEF Traded
  <2>2. CASE ~mirror.pending
    <3>1. TradesAreKnown'
      BY <1>1, <1>2, <1>3, <2>2, TradesStay DEF Traded, WellFormed
    <3> QED BY <1>3, <2>2, <3>1 DEF Traded
  <2> QED BY <2>1, <2>2
<1>4. CASE Starts
  BY <1>1, <1>3, <1>4 DEF NoneIsNothing, Starts, Polling, Traded, WellFormed, NothingRests, FoundFlat, Known
<1>5. CASE ReadsStatus
  <2>1. mirror' = [mirror EXCEPT !.at = "positions",
                     !.seen = [open |-> book.open, pending |-> book.pending, late |-> TooOld(book)]]
    BY <1>5 DEF ReadsStatus
  <2>2. /\ mirror'.at = "positions" /\ mirror'.then = mirror.then /\ mirror'.held = mirror.held
        /\ mirror'.pending = mirror.pending
        /\ mirror'.seen = [open |-> book.open, pending |-> book.pending, late |-> TooOld(book)]
    BY <1>0, <2>1
  <2>3. mirror'.seen # None /\ mirror'.seen.open = book.open
    BY <2>2 DEF NoneIsNothing
  <2>4. WellFormed'
    <3> DEFINE seen == [open |-> book.open, pending |-> book.pending, late |-> TooOld(book)]
    <3>1. mirror' = [mirror EXCEPT !.at = "positions", !.seen = seen]
      BY <2>1
    <3> HIDE DEF seen
    <3> QED BY <1>1, <3>1 DEF Traded, WellFormed
  <2>5. CASE ~mirror.pending
    <3>1. NothingRests'
      BY <1>1, <2>2, <2>5 DEF Traded, NothingRests
    <3>2. mirror.at = "top"
      BY <1>5 DEF ReadsStatus
    <3>3. FoundFlat'
      BY <1>1, <2>2, <2>3, <2>5, <3>2 DEF NoneIsNothing, Traded, FoundFlat, NothingRests
    <3>4. Known' \subseteq Known
      BY <1>1, <2>3 DEF Known
    <3> QED BY <1>3, <2>2, <2>4, <3>1, <3>3, <3>4
  <2> QED BY <1>3, <2>2, <2>4, <2>5
<1>6. CASE ReadsPositions
  <2>1. mirror' = [mirror EXCEPT !.at = IF mirror.pending THEN "orders" ELSE "reconcile",
                     !.held = Positions, !.healthy = account.up]
    BY <1>6 DEF ReadsPositions
  <2>2. CASE mirror.pending
    BY <1>1, <1>3, <2>1, <2>2 DEF Traded, WellFormed
  <2>3. CASE ~mirror.pending
    <3>1. /\ mirror'.at = "reconcile" /\ mirror'.then = mirror.then /\ mirror'.seen = mirror.seen
          /\ mirror'.held = Positions /\ mirror'.pending = mirror.pending
      <4> DEFINE new == [mirror EXCEPT !.at = "reconcile", !.held = Positions, !.healthy = account.up]
      <4>1. mirror' = new
        BY <2>1, <2>3
      <4> HIDE DEF new
      <4> QED BY <1>0, <4>1 DEF new
    <3>2. WellFormed'
      BY <1>1, <2>1, <2>3 DEF Traded, WellFormed
    <3>3. NothingRests'
      BY <1>1, <2>3, <3>1 DEF Traded, NothingRests
    <3>4. mirror.at = "positions"
      BY <1>6 DEF ReadsPositions
    <3>5. FoundFlat'
      BY <1>1, <2>3, <3>1, <3>4 DEF Traded, FoundFlat, Positions
    <3>6. Known' = Known
      BY <1>1, <3>1 DEF Known
    <3> QED BY <1>3, <3>1, <3>2, <3>3, <3>5, <3>6
  <2> QED BY <2>2, <2>3 DEF Traded, WellFormed
<1>7. CASE ReadsOrders \/ ReconcilesPending \/ FilledAhead
  <2>1. mirror.pending
    BY <1>7 DEF ReadsOrders, ReconcilesPending, FilledAhead, Traded, NothingRests
  <2>2. CASE ReadsOrders
    BY <1>1, <1>3, <2>1, <2>2 DEF ReadsOrders, Traded, WellFormed
  <2>3. CASE FilledAhead
    BY <1>1, <1>3, <2>1, <2>3 DEF FilledAhead, Traded, WellFormed
  <2>4. CASE ReconcilesPending
    BY <1>1, <1>3, <2>1, <2>4 DEF ReconcilesPending, Goes, Sends, Sending, Traded, WellFormed
  <2> QED BY <1>7, <2>2, <2>3, <2>4
<1>8. CASE SeesStop \/ Flattens
  <2>0. PICK next \in {"off", "asleep"} : \E healthy :
          mirror' = Sending([mirror EXCEPT !.healthy = healthy], Positions, next)
    BY <1>8 DEF SeesStop, Flattens, Sends
  <2>1. PICK healthy : mirror' = Sending([mirror EXCEPT !.healthy = healthy], Positions, next)
    BY <2>0
  <2> DEFINE loop == [mirror EXCEPT !.healthy = healthy]
  <2>2. loop = [at |-> mirror.at, then |-> mirror.then, weekend |-> mirror.weekend,
                seen |-> mirror.seen, held |-> mirror.held, waiting |-> mirror.waiting,
                queue |-> mirror.queue, ahead |-> mirror.ahead, pending |-> mirror.pending,
                healthy |-> healthy]
    BY <1>0
  <2> HIDE DEF loop
  <2>3. mirror' = Sending(loop, Positions, next)
    BY <2>1 DEF loop
  <2> QED BY <1>1, <1>3, <2>2, <2>3, SendingGoesOn
             DEF NoneIsNothing, Traded, WellFormed, NothingRests, FoundFlat, Known
<1>9. CASE WeekendPoll
  <2>1. PICK healthy, weekend, requests :
          mirror' = Sending([mirror EXCEPT !.weekend = weekend, !.healthy = healthy],
                            requests, "flatten")
    BY <1>9 DEF WeekendPoll
  <2>a. PICK loop : loop = [mirror EXCEPT !.weekend = weekend, !.healthy = healthy]
    OBVIOUS
  <2>2. loop = [at |-> mirror.at, then |-> mirror.then, weekend |-> weekend,
                seen |-> mirror.seen, held |-> mirror.held, waiting |-> mirror.waiting,
                queue |-> mirror.queue, ahead |-> mirror.ahead, pending |-> mirror.pending,
                healthy |-> healthy]
    BY <1>0, <2>a
  <2>3. mirror' = Sending(loop, requests, "flatten")
    BY <2>1, <2>a
  <2> QED BY <1>1, <1>3, <2>2, <2>3, SendingGoesOn
             DEF NoneIsNothing, Traded, WellFormed, NothingRests, FoundFlat, Known
<1>10. CASE Reconciles
  <2>a. PICK loop : loop = [mirror EXCEPT !.held = {}, !.waiting = {}]
    OBVIOUS
  <2>2. loop = [at |-> mirror.at, then |-> mirror.then, weekend |-> mirror.weekend,
                seen |-> mirror.seen, held |-> {}, waiting |-> {},
                queue |-> mirror.queue, ahead |-> mirror.ahead, pending |-> mirror.pending,
                healthy |-> mirror.healthy]
    BY <1>0, <2>a
  <2>3. \/ \E requests : mirror' = Sending(loop, requests, "asleep")
        \/ mirror.seen.open # None /\ mirror.held = {} /\ mirror' = Sending(loop, {}, "open")
        \/ \E requests : /\ mirror.seen.open # None /\ requests # {}
                          /\ mirror' = Sending(loop, requests, "reopen")
    BY <1>10, <2>a DEF Reconciles
  <2>4. mirror.at = "reconcile"
    BY <1>10 DEF Reconciles
  <2> QED BY <1>1, <1>3, <2>2, <2>3, <2>4, SendingGoesOn
          DEF NoneIsNothing, Traded, WellFormed, NothingRests, FoundFlat, Known
<1>11. CASE Reopens
  <2>1. mirror' = [mirror EXCEPT !.at = IF Positions = {} THEN "open" ELSE "asleep"]
    BY <1>11 DEF Reopens, Goes
  <2> QED BY <1>1, <1>3, <1>11, <2>1
          DEF Reopens, Traded, WellFormed, NothingRests, FoundFlat, Known, Positions
<1> QED BY <1>4, <1>5, <1>6, <1>7, <1>8, <1>9, <1>10, <1>11 DEF MirrorStep

-----------------------------------------------------------------------------
(* The steps that leave the account, or that the book does not answer to *)

(* A step that keeps the loop, and of the trades everything. *)
LEMMA LoopUntouched ==
  ASSUME Traded, WellFormed', UNCHANGED mirror, View' = View,
         ~mirror.pending => /\ account'.orders = {} /\ book'.pending = None
                            /\ account'.up => account.up
                            /\ account'.positions \subseteq account.positions,
         Known' \subseteq Known, bar' >= bar, book'.decided = book.decided
  PROVE  Traded'
<1>1. CASE mirror.pending
  BY <1>1 DEF Traded
<1>2. CASE ~mirror.pending
  <2>1. NothingRests'
    BY <1>2 DEF Traded, NothingRests
  <2>2. FoundFlat'
    BY <1>2 DEF Traded, FoundFlat
  <2>3. TradesAreKnown'
    BY <1>2, TradesStay DEF Traded, WellFormed
  <2> QED BY <1>2, <2>1, <2>2, <2>3 DEF Traded
<1> QED BY <1>1, <1>2

LEMMA OthersKeepTrades ==
  ASSUME NoneIsNothing, Traded,
         BookCloses \/ BookCancels \/ BarCloses \/ WeekGoesOn \/ StopsOut \/ Expires
         \/ TerminalLost \/ StopPlaced \/ StopTaken
  PROVE  Traded'
<1>1. CASE BookCloses \/ BookCancels
  <2>1. PICK open, pending : /\ BookSteps(open, pending, book.decided)
                             /\ open \in {None, book.open} /\ pending \in {None, book.pending}
    BY <1>1 DEF BookCloses, BookCancels
  <2>2. book' = [open |-> open, pending |-> pending, last |-> book.last, decided |-> book.decided]
    BY <2>1 DEF BookSteps, Traded, WellFormed
  <2>3. UNCHANGED <<bar, account, mirror>>
    BY <2>1 DEF BookSteps
  <2>4. WellFormed'
    BY <2>2, <2>3 DEF Traded, WellFormed
  <2>5. View' = View
    BY <2>3 DEF View
  <2>6. ~mirror.pending => account'.orders = {} /\ book'.pending = None
    BY <2>1, <2>2, <2>3 DEF Traded, NothingRests
  <2>7. Known' \ {None} \subseteq Known
    BY <2>1, <2>2, <2>3 DEF Known
  <2>8. CASE mirror.pending
    BY <2>3, <2>4, <2>8 DEF Traded
  <2>9. CASE ~mirror.pending
    <3>1. TradesAreKnown'
      BY <2>2, <2>3, <2>5, <2>7, <2>9 DEF Traded, TradesAreKnown
    <3>2. NothingRests' /\ FoundFlat'
      BY <2>3, <2>6, <2>9 DEF Traded, NothingRests, FoundFlat
    <3> QED BY <2>3, <2>4, <2>9, <3>1, <3>2 DEF Traded
  <2> QED BY <2>8, <2>9
<1>2. CASE BarCloses
  <2>1. bar' = bar + 1 /\ UNCHANGED <<account, mirror>>
    BY <1>2 DEF BarCloses
  <2>2. /\ book' = [open |-> book'.open, pending |-> book'.pending, last |-> book'.last,
                    decided |-> book'.decided]
        /\ book'.open = book.open /\ book'.decided = book.decided
        /\ book.pending = None => book'.pending = None
    BY <1>2 DEF BarCloses, Traded, WellFormed, Waited
  <2>3. View' = View
    BY <2>1 DEF View
  <2>4. Known' = Known
    BY <2>1, <2>2 DEF Known
  <2>5. WellFormed'
    BY <2>1, <2>2 DEF Traded, WellFormed
  <2> QED BY <2>1, <2>2, <2>3, <2>4, <2>5, LoopUntouched DEF Traded, WellFormed, NothingRests
<1>3. CASE WeekGoesOn \/ StopPlaced \/ StopTaken
  <2>1. UNCHANGED <<bar, book, account, mirror>>
    BY <1>3 DEF WeekGoesOn, StopPlaced, StopTaken
  <2> QED BY <2>1, LoopUntouched DEF Traded, WellFormed, NothingRests, View, Known
<1>4. CASE StopsOut
  <2>1. PICK p \in account.positions : account' = Left(account, p)
    BY <1>4 DEF StopsOut
  <2>2. UNCHANGED <<bar, book, mirror>>
    BY <1>4 DEF StopsOut, Elsewhere
  <2>3. /\ View' = View /\ account'.positions \subseteq account.positions
        /\ account'.orders = account.orders /\ account'.up = account.up
    BY <2>1, LeavingIsNoTrade DEF Traded
  <2>4. WellFormed'
    BY <2>1, <2>2 DEF Traded, WellFormed, Left
  <2>5. Known' = Known
    BY <2>2 DEF Known
  <2> QED BY <2>2, <2>3, <2>4, <2>5, LoopUntouched DEF Traded, WellFormed, NothingRests
<1>5. CASE Expires
  <2>1. PICK o \in account.orders : account' = Withdrawn(account, o)
    BY <1>5 DEF Expires
  <2>2. account' = [account EXCEPT !.orders = account.orders \ {o}]
    BY <2>1 DEF Withdrawn
  <2>3. UNCHANGED <<bar, book, mirror>>
    BY <1>5 DEF Expires, Elsewhere
  <2>4. /\ account'.positions = account.positions /\ account'.closed = account.closed
        /\ account'.up = account.up
    BY <2>2 DEF Traded, WellFormed
  <2>5. WellFormed'
    BY <2>2, <2>3 DEF Traded, WellFormed
  <2>6. mirror.pending
    BY <2>1 DEF Traded, NothingRests
  <2> QED BY <2>3, <2>5, <2>6 DEF Traded
<1>6. CASE TerminalLost
  <2>1. account' = [account EXCEPT !.up = FALSE] /\ UNCHANGED <<bar, book, mirror>>
    BY <1>6 DEF TerminalLost
  <2>2. /\ account'.positions = account.positions /\ account'.closed = account.closed
        /\ account'.orders = account.orders /\ ~account'.up
    BY <2>1 DEF Traded, WellFormed
  <2>3. WellFormed'
    BY <2>1 DEF Traded, WellFormed
  <2>4. View' = View /\ Known' = Known
    BY <2>1, <2>2 DEF View, Known
  <2> QED BY <2>1, <2>2, <2>3, <2>4, LoopUntouched DEF Traded, WellFormed, NothingRests
<1> QED BY <1>1, <1>2, <1>3, <1>4, <1>5, <1>6

(* A poll that begins, or ends, knows what the book holds and no more.      *)
LEMMA PollsBegin ==
  ASSUME NoneIsNothing, Traded, Sleeps \/ Dies
  PROVE  Traded'
<1>0. PICK at \in {"top", "off"} : \E ahead : mirror' = Polling(at, ahead, mirror.pending)
  BY DEF Sleeps, Dies
<1>1. PICK ahead : mirror' = Polling(at, ahead, mirror.pending)
  BY <1>0
<1>2. mirror' = [at |-> at, then |-> None, weekend |-> FALSE, seen |-> None, held |-> {},
                 waiting |-> {}, queue |-> {}, ahead |-> ahead, pending |-> mirror.pending,
                 healthy |-> TRUE]
  BY <1>1 DEF Polling
<1>3. UNCHANGED <<bar, book, account>>
  BY DEF Sleeps, Dies, Elsewhere
<1>4. WellFormed'
  BY <1>2, <1>3 DEF Traded, WellFormed
<1>5. CASE mirror.pending
  BY <1>2, <1>4, <1>5 DEF Traded
<1>6. CASE ~mirror.pending
  <2>1. NothingRests'
    BY <1>2, <1>3, <1>6 DEF NoneIsNothing, Traded, NothingRests
  <2>2. FoundFlat'
    BY <1>2 DEF NoneIsNothing, FoundFlat
  <2>3. View' = View /\ Known' \subseteq Known
    BY <1>2, <1>3 DEF View, Known
  <2>4. TradesAreKnown'
    BY <1>3, <1>6, <2>3, TradesStay DEF Traded, WellFormed
  <2> QED BY <1>2, <1>4, <1>6, <2>1, <2>2, <2>4 DEF Traded
<1> QED BY <1>5, <1>6

(* The terminal answers again between two polls, when nothing is decided on *)
(* what it did not say.                                                     *)
LEMMA TerminalComesBack ==
  ASSUME NoneIsNothing, Traded, TerminalBack
  PROVE  Traded'
<1>1. /\ account' = [account EXCEPT !.up = TRUE] /\ mirror.at \in {"off", "top"}
      /\ UNCHANGED <<bar, book, mirror>>
  BY DEF TerminalBack, Elsewhere
<1>2. /\ account'.positions = account.positions /\ account'.closed = account.closed
      /\ account'.orders = account.orders
  BY <1>1 DEF Traded, WellFormed
<1>3. WellFormed'
  BY <1>1 DEF Traded, WellFormed
<1>4. CASE mirror.pending
  BY <1>1, <1>3, <1>4 DEF Traded
<1>5. CASE ~mirror.pending
  <2>1. NothingRests' /\ FoundFlat'
    BY <1>1, <1>2, <1>5 DEF Traded, NothingRests, FoundFlat
  <2>2. View' = View /\ Known' = Known
    BY <1>1, <1>2 DEF View, Known
  <2>3. TradesAreKnown'
    BY <1>1, <1>5, <2>2, TradesStay DEF Traded, WellFormed
  <2> QED BY <1>1, <1>3, <1>5, <2>1, <2>3 DEF Traded
<1> QED BY <1>4, <1>5

(* A position the book takes has an identity no trade carries yet.          *)
LEMMA BookTakesPositions ==
  ASSUME NoneIsNothing, Traded, BookOpens
  PROVE  Traded'
<1>1. PICK side \in Sides, entry \in 1..bar :
        BookSteps(Position(book.decided + 1, side, entry), None, book.decided + 1)
  BY DEF BookOpens
<1> DEFINE new == Position(book.decided + 1, side, entry)
<1>2. book' = [open |-> new, pending |-> None, last |-> book.last, decided |-> book.decided + 1]
  BY <1>1 DEF BookSteps, Traded, WellFormed
<1>3. UNCHANGED <<bar, account, mirror>>
  BY <1>1 DEF BookSteps
<1>4. new.id = book.decided + 1 /\ new.side = side /\ new.entry = entry
  BY DEF Position
<1> HIDE DEF new
<1>5. WellFormed'
  BY <1>2, <1>3 DEF Traded, WellFormed
<1>6. CASE mirror.pending
  BY <1>3, <1>5, <1>6 DEF Traded
<1>7. CASE ~mirror.pending
  <2>1. NothingRests' /\ FoundFlat'
    BY <1>2, <1>3, <1>7 DEF Traded, NothingRests, FoundFlat
  <2>2. View' = View
    BY <1>3 DEF View
  <2>3. Known' \subseteq Known \cup {new}
    BY <1>2, <1>3 DEF Known
  <2>4. book.decided \in Nat /\ bar \in Nat /\ entry \in Int /\ entry <= bar
    BY DEF Traded, WellFormed
  <2>5. TradesAreKnown
    BY <1>7 DEF Traded
  <2>6. \A t \in View' : t.of \in 1..book.decided
    BY <2>2, <2>5 DEF TradesAreKnown
  <2>7. \A t \in View' : t.of # new.id
    BY <1>4, <2>4, <2>6
  <2>8. \A o \in Known \ {None} : o.id \in 1..book.decided
    BY <2>5 DEF TradesAreKnown
  <2>9. \A o \in Known \ {None} : o.id # new.id
    BY <1>4, <2>4, <2>8
  <2>10. \A t \in View' : t.of \in 1..book'.decided
    BY <1>2, <2>4, <2>6
  <2>11. \A o \in Known' \ {None} :
           /\ o.id \in 1..book'.decided /\ o.entry \in Int /\ o.entry <= bar'
           /\ \A t \in View' : t.of = o.id => t.side = o.side /\ t.at \in Int /\ t.at >= o.entry
    <3> SUFFICES ASSUME NEW o \in Known' \ {None}
                 PROVE  /\ o.id \in 1..book'.decided /\ o.entry \in Int /\ o.entry <= bar
                        /\ \A t \in View : t.of = o.id => t.side = o.side /\ t.at \in Int /\ t.at >= o.entry
      BY <1>3, <2>2
    <3>1. CASE o = new
      BY <1>2, <1>4, <2>2, <2>4, <2>7, <3>1
    <3>2. CASE o # new
      <4>1. o \in Known \ {None}
        BY <2>3, <3>2
      <4>2. o.id \in 1..book'.decided
        BY <1>2, <2>4, <2>8, <4>1
      <4> QED BY <2>5, <4>1, <4>2 DEF TradesAreKnown
    <3> QED BY <3>1, <3>2
  <2>12. \A o, p \in Known' \ {None} : o.id = p.id => o = p
    BY <2>3, <2>5, <2>9 DEF TradesAreKnown
  <2>13. \A t, u \in View' : t.of = u.of => t.ticket = u.ticket
    BY <2>2, <2>5 DEF TradesAreKnown
  <2>14. TradesAreKnown'
    BY <2>10, <2>11, <2>12, <2>13 DEF TradesAreKnown
  <2> QED BY <1>3, <1>5, <1>7, <2>1, <2>14 DEF Traded
<1> QED BY <1>6, <1>7

(* What only happens when orders may rest. *)
LEMMA RestingIsNotAsked ==
  ASSUME Traded, BookRests \/ BookFills \/ PlacesPending \/ OrderFills
  PROVE  Traded'
<1>1. mirror.pending
  BY DEF BookRests, BookFills, PlacesPending, OrderFills, Traded, NothingRests
<1>2. CASE BookRests \/ BookFills
  <2>1. PICK decided \in {book.decided, book.decided + 1} :
          \E open, pending : BookSteps(open, pending, decided)
    <3>1. CASE BookRests
      BY <3>1 DEF BookRests
    <3>2. CASE BookFills
      BY <3>2 DEF BookFills
    <3> QED BY <1>2, <3>1, <3>2
  <2>2. decided \in Nat
    BY DEF Traded, WellFormed
  <2> QED BY <1>1, <2>1, <2>2 DEF BookSteps, Traded, WellFormed
<1>3. CASE PlacesPending
  <2>1. /\ mirror' = [mirror EXCEPT !.at = "ahead"] /\ UNCHANGED <<bar, book>>
    BY <1>3 DEF PlacesPending, Goes, Elsewhere
  <2>2. account' = [up |-> account.up, positions |-> account.positions, orders |-> account'.orders,
                    closed |-> account.closed, tickets |-> account'.tickets]
    BY <1>3 DEF PlacesPending, Traded, WellFormed
  <2>3. WellFormed'
    BY <2>1, <2>2 DEF Traded, WellFormed
  <2> QED BY <1>1, <2>1, <2>3 DEF Traded, WellFormed
<1>4. CASE OrderFills
  <2>1. mirror' = [mirror EXCEPT !.healthy = FALSE] /\ UNCHANGED <<bar, book>>
    BY <1>4 DEF OrderFills, Elsewhere
  <2>2. PICK o, positions : account' = [Withdrawn(account, o) EXCEPT !.positions = positions]
    BY <1>4 DEF OrderFills
  <2>3. WellFormed'
    BY <2>1, <2>2 DEF Traded, WellFormed, Withdrawn
  <2> QED BY <1>1, <2>1, <2>3 DEF Traded, WellFormed
<1> QED BY <1>2, <1>3, <1>4

-----------------------------------------------------------------------------
(* Sending *)

(* A request closes a position, withdraws an order, or is not carried out.  *)
LEMMA SendingKeepsTrades ==
  ASSUME NoneIsNothing, Traded, SendsOne
  PROVE  Traded'
<1>1. PICK r \in mirror.queue :
        /\ \/ r \in account.positions /\ account' = Left(account, r)
           \/ r \in account.orders /\ account' = Withdrawn(account, r)
           \/ UNCHANGED account
        /\ \E healthy : mirror' = Sending([mirror EXCEPT !.healthy = healthy],
                                         mirror.queue \ {r}, mirror.then)
  BY DEF SendsOne
<1>2. PICK healthy : mirror' = Sending([mirror EXCEPT !.healthy = healthy],
                                       mirror.queue \ {r}, mirror.then)
  BY <1>1
<1>3. UNCHANGED <<bar, book>> /\ mirror.at = "send"
  BY DEF SendsOne, Elsewhere
<1>4. PICK loop : loop = [mirror EXCEPT !.healthy = healthy]
  OBVIOUS
<1>5. loop = [at |-> mirror.at, then |-> mirror.then, weekend |-> mirror.weekend,
              seen |-> mirror.seen, held |-> mirror.held, waiting |-> mirror.waiting,
              queue |-> mirror.queue, ahead |-> mirror.ahead, pending |-> mirror.pending,
              healthy |-> healthy]
  BY <1>4 DEF Traded, WellFormed
<1>6. PICK at, then :
        /\ mirror' = [at |-> at, then |-> then, weekend |-> mirror.weekend,
                      seen |-> mirror.seen, held |-> mirror.held, waiting |-> mirror.waiting,
                      queue |-> mirror.queue \ {r}, ahead |-> mirror.ahead,
                      pending |-> mirror.pending, healthy |-> healthy]
        /\ \/ at = mirror.then /\ then = None
           \/ at = "send" /\ then = mirror.then
  <2>1. mirror' = Sending(loop, mirror.queue \ {r}, mirror.then)
    BY <1>2, <1>4
  <2>2. /\ loop.weekend = mirror.weekend /\ loop.seen = mirror.seen /\ loop.held = mirror.held
        /\ loop.waiting = mirror.waiting /\ loop.ahead = mirror.ahead
        /\ loop.pending = mirror.pending /\ loop.healthy = healthy
    BY <1>5
  <2>3. loop = [at |-> loop.at, then |-> loop.then, weekend |-> loop.weekend,
                seen |-> loop.seen, held |-> loop.held, waiting |-> loop.waiting,
                queue |-> loop.queue, ahead |-> loop.ahead, pending |-> loop.pending,
                healthy |-> loop.healthy]
    BY <1>5
  <2>4. PICK at, then :
          /\ mirror' = [at |-> at, then |-> then, weekend |-> loop.weekend,
                        seen |-> loop.seen, held |-> loop.held, waiting |-> loop.waiting,
                        queue |-> mirror.queue \ {r}, ahead |-> loop.ahead,
                        pending |-> loop.pending, healthy |-> loop.healthy]
          /\ \/ at = mirror.then /\ then = None
             \/ at = "send" /\ then = mirror.then
    <3>1. PICK rest, next : rest = mirror.queue \ {r} /\ next = mirror.then
      OBVIOUS
    <3>2. \E at, then :
            /\ Sending(loop, rest, next) =
                 [at |-> at, then |-> then, weekend |-> loop.weekend,
                  seen |-> loop.seen, held |-> loop.held, waiting |-> loop.waiting,
                  queue |-> rest, ahead |-> loop.ahead, pending |-> loop.pending,
                  healthy |-> loop.healthy]
            /\ \/ rest = {} /\ at = next /\ then = None
               \/ rest # {} /\ at = "send" /\ then = next
      BY <2>3, SendingGoesOn
    <3> QED BY <2>1, <3>1, <3>2
  <2> QED BY <2>2, <2>4
<1>7. WellFormed'
  BY <1>1, <1>3, <1>6 DEF Traded, WellFormed, Left, Withdrawn
<1>8. CASE mirror.pending
  BY <1>6, <1>7, <1>8 DEF Traded
<1>9. CASE ~mirror.pending
  <2>1. account.orders = {}
    BY <1>9 DEF Traded, NothingRests
  <2>2. /\ View' = View /\ account'.positions \subseteq account.positions
        /\ account'.orders = account.orders /\ account'.up = account.up
    BY <1>1, <2>1, LeavingIsNoTrade DEF Traded, View
  <2>3. Known' = Known
    BY <1>3, <1>6 DEF Known
  <2>4. TradesAreKnown'
    BY <1>3, <1>9, <2>2, <2>3, TradesStay DEF Traded, WellFormed
  <2>5. NothingRests'
    BY <1>3, <1>6, <1>9, <2>2 DEF NoneIsNothing, Traded, NothingRests
  <2>6. FoundFlat'
    BY <1>3, <1>6, <1>9, <2>2 DEF NoneIsNothing, Traded, NothingRests, FoundFlat
  <2> QED BY <1>6, <1>7, <1>9, <2>4, <2>5, <2>6 DEF Traded
<1> QED BY <1>8, <1>9

(* The account is entered only when it is flat and when no trade that is    *)
(* over may have been of the position (already_taken).                      *)
LEMMA OpeningIsNew ==
  ASSUME NoneIsNothing, Traded, Opens
  PROVE  Traded'
<1> DEFINE open == mirror.seen.open
<1>1. mirror.at = "open" /\ mirror' = [mirror EXCEPT !.at = "asleep"] /\ UNCHANGED <<bar, book>>
  BY DEF Opens, Goes, Elsewhere
<1>2. /\ mirror'.at = "asleep" /\ mirror'.then = mirror.then /\ mirror'.seen = mirror.seen
      /\ mirror'.pending = mirror.pending
  BY <1>1 DEF Traded, WellFormed
<1>3. \/ account.up /\ ~Taken(open) /\ account' = Positioned(account, open.side, open.id)
      \/ UNCHANGED account
  BY DEF Opens, Trading
<1>4. WellFormed'
  BY <1>1, <1>3 DEF Traded, WellFormed, Positioned
<1>5. CASE mirror.pending
  BY <1>2, <1>4, <1>5 DEF Traded
<1>6. CASE ~mirror.pending
  <2>1. Known' = Known
    BY <1>1, <1>2 DEF Known
  <2>2. account'.orders = account.orders
    BY <1>3 DEF Traded, WellFormed, Positioned
  <2>3. NothingRests'
    BY <1>1, <1>2, <1>6, <2>2 DEF Traded, NothingRests
  <2>4. FoundFlat'
    BY <1>1, <1>2, <1>6 DEF NoneIsNothing, Traded, FoundFlat
  <2>5. TradesAreKnown
    BY <1>6 DEF Traded
  <2>6. CASE UNCHANGED account
    <3>1. View' = View
      BY <2>6 DEF View
    <3> QED BY <1>1, <1>2, <1>4, <1>6, <2>1, <2>3, <2>4, <2>5, <3>1, TradesStay DEF Traded, WellFormed
  <2>7. CASE account.up /\ ~Taken(open) /\ account' = Positioned(account, open.side, open.id)
    <3> DEFINE p == [ticket |-> account.tickets + 1, side |-> open.side, of |-> open.id, at |-> bar]
    <3>1. /\ account'.positions = account.positions \cup {p}
          /\ account'.closed = account.closed
      BY <2>7 DEF Positioned, Traded, WellFormed
    <3>2. account.positions = {} /\ open \in Known \ {None}
      BY <1>1, <1>6, <2>7 DEF Traded, FoundFlat, Known
    <3>3. Closed(p) = [ticket |-> account.tickets + 1, of |-> open.id, side |-> open.side, at |-> bar]
      BY DEF Closed
    <3> DEFINE new == Closed(p)
    <3>4. new.of = open.id /\ new.side = open.side /\ new.at = bar
      BY <3>3
    <3>5. View' = View \cup {new}
      BY <3>1 DEF View
    <3>6. View = {Closed(q) : q \in account.closed}
      BY <3>2 DEF View
    <3> HIDE DEF new
    <3>7. \A t \in View : t.of # open.id
      <4> SUFFICES ASSUME NEW q \in account.closed, Closed(q).of = open.id PROVE FALSE
        BY <3>6
      <4>1. Closed(q) \in View /\ Closed(q).side = q.side /\ Closed(q).at = q.at
        BY <3>6 DEF Closed
      <4>2. q.side = open.side /\ q.at >= open.entry
        BY <2>5, <3>2, <4>1 DEF TradesAreKnown
      <4> QED BY <2>7, <4>2 DEF Taken
    <3>8. \A t \in View' : t.of \in 1..book'.decided
      BY <1>1, <2>5, <3>2, <3>4, <3>5 DEF TradesAreKnown
    <3>9. \A t, u \in View' : t.of = u.of => t.ticket = u.ticket
      BY <2>5, <3>4, <3>5, <3>7 DEF TradesAreKnown
    <3>10. \A o, q \in Known' \ {None} : o.id = q.id => o = q
      BY <2>1, <2>5 DEF TradesAreKnown
    <3>11. \A o \in Known' \ {None} :
             /\ o.id \in 1..book'.decided /\ o.entry \in Int /\ o.entry <= bar'
             /\ \A t \in View' : t.of = o.id => t.side = o.side /\ t.at \in Int /\ t.at >= o.entry
      <4> SUFFICES ASSUME NEW o \in Known \ {None}
                   PROVE  /\ o.id \in 1..book.decided /\ o.entry \in Int /\ o.entry <= bar
                          /\ \A t \in View' : t.of = o.id => t.side = o.side /\ t.at \in Int /\ t.at >= o.entry
        BY <1>1, <2>1
      <4>1. /\ o.id \in 1..book.decided /\ o.entry \in Int /\ o.entry <= bar
            /\ \A t \in View : t.of = o.id => t.side = o.side /\ t.at \in Int /\ t.at >= o.entry
        BY <2>5 DEF TradesAreKnown
      <4>2. new.of = o.id => o = open
        BY <2>5, <3>2, <3>4 DEF TradesAreKnown
      <4>3. bar \in Int
        BY DEF Traded, WellFormed
      <4>4. new.of = o.id => new.side = o.side /\ new.at \in Int /\ new.at >= o.entry
        BY <3>4, <4>1, <4>2, <4>3
      <4> QED BY <3>5, <4>1, <4>4
    <3>12. TradesAreKnown'
      BY <3>8, <3>9, <3>10, <3>11 DEF TradesAreKnown
    <3> QED BY <1>2, <1>4, <1>6, <2>3, <2>4, <3>12 DEF Traded
  <2> QED BY <1>3, <2>6, <2>7
<1> QED BY <1>5, <1>6

-----------------------------------------------------------------------------
LEMMA StartsUntraded ==
  ASSUME NoneIsNothing, MirrorInit
  PROVE  Traded
<1>1. PICK pending \in BOOLEAN : mirror = Polling("off", 0, pending)
  BY DEF MirrorInit, NoneIsNothing
<1>2. mirror = [at |-> "off", then |-> None, weekend |-> FALSE, seen |-> None, held |-> {},
                waiting |-> {}, queue |-> {}, ahead |-> 0, pending |-> pending, healthy |-> TRUE]
  BY <1>1 DEF Polling
<1>3. WellFormed
  BY <1>2 DEF MirrorInit, WellFormed
<1>4. View = {}
  BY DEF MirrorInit, View
<1>5. Known \ {None} = {}
  BY <1>2 DEF MirrorInit, Known
<1>6. TradesAreKnown
  BY <1>4, <1>5 DEF TradesAreKnown
<1>7. ~mirror.pending => NothingRests /\ FoundFlat
  BY <1>2 DEF NoneIsNothing, MirrorInit, NothingRests, FoundFlat
<1> QED BY <1>3, <1>6, <1>7 DEF Traded

(* Trades with one ticket are one trade. *)
LEMMA TradedIsOnce ==
  ASSUME Traded
  PROVE  TradedOnce
<1> SUFFICES ASSUME ~mirror.pending, NEW id \in 1..book.decided
             PROVE  Cardinality(TradesOf(id)) <= 1
  BY DEF TradedOnce
<1>1. ASSUME NEW t \in TradesOf(id), NEW u \in TradesOf(id) PROVE t = u
  <2>1. PICK p \in account.positions \cup account.closed : p.of = id /\ t = p.ticket
    BY DEF TradesOf
  <2>2. PICK q \in account.positions \cup account.closed : q.of = id /\ u = q.ticket
    BY DEF TradesOf
  <2>3. /\ Closed(p) \in View /\ Closed(q) \in View
        /\ Closed(p).of = id /\ Closed(p).ticket = t /\ Closed(q).of = id /\ Closed(q).ticket = u
    BY <2>1, <2>2 DEF View, Closed
  <2> QED BY <2>3 DEF Traded, TradesAreKnown
<1>2. CASE TradesOf(id) = {}
  BY <1>2, FS_EmptySet
<1>3. CASE TradesOf(id) # {}
  <2>1. PICK t : TradesOf(id) = {t}
    BY <1>1, <1>3
  <2> QED BY <2>1, FS_Singleton
<1> QED BY <1>2, <1>3

LEMMA TradedKept ==
  ASSUME NoneIsNothing, Traded, [MirrorNext]_mirrorVars
  PROVE  Traded'
<1>1. CASE MirrorStep
  BY <1>1, MirrorKeepsTrades
<1>2. CASE BookCloses \/ BookCancels \/ BarCloses \/ WeekGoesOn \/ StopsOut \/ Expires
           \/ TerminalLost \/ StopPlaced \/ StopTaken
  BY <1>2, OthersKeepTrades
<1>3. CASE Sleeps \/ Dies
  BY <1>3, PollsBegin
<1>4. CASE BookOpens
  BY <1>4, BookTakesPositions
<1>5. CASE BookRests \/ BookFills \/ PlacesPending \/ OrderFills
  BY <1>5, RestingIsNotAsked
<1>6. CASE SendsOne
  BY <1>6, SendingKeepsTrades
<1>7. CASE Opens
  BY <1>7, OpeningIsNew
<1>8. CASE TerminalBack
  BY <1>8, TerminalComesBack
<1>9. CASE UNCHANGED mirrorVars
  BY <1>9, LoopUntouched DEF mirrorVars, Traded, WellFormed, NothingRests, View, Known
<1> QED BY <1>1, <1>2, <1>3, <1>4, <1>5, <1>6, <1>7, <1>8, <1>9 DEF MirrorNext, MirrorStep

(* Without --mirror-pending, no position of the book is traded twice: not   *)
(* by a poll that was begun before another's order was seen, not after a    *)
(* stop the broker hit before the book's bar closed, not after a restart,   *)
(* for any book, any broker and any number of polls.                        *)
THEOREM EachPositionOnce ==
  ASSUME NoneIsNothing
  PROVE  MirrorSpec => []TradedOnce
<1>1. MirrorInit => Traded
  BY StartsUntraded
<1>2. Traded /\ [MirrorNext]_mirrorVars => Traded'
  BY TradedKept
<1> QED BY <1>1, <1>2, TradedIsOnce, PTL DEF MirrorSpec

-----------------------------------------------------------------------------
(***************************************************************************)
(* What a poll leaves behind when the terminal answered it: nothing in the *)
(* weekend, and the book's side in the week, for any book and any broker,  *)
(* with and without resting orders.                                        *)
(***************************************************************************)
(* Only a poll of the weekend flattens. *)
WeekendOrder ==
  /\ mirror.at = "send" =>
       mirror.then \in {"off", "flatten", "asleep", "ahead", "place", "reopen"}
  /\ mirror.weekend => \/ mirror.at \in {"flatten", "asleep"}
                       \/ mirror.at = "send" /\ mirror.then \in {"flatten", "asleep"}
  /\ mirror.at = "flatten" \/ (mirror.at = "send" /\ mirror.then = "flatten")
       => mirror.weekend

(* First the orders go, then the positions: what is left is still to be sent. *)
Emptied ==
  mirror.weekend /\ mirror.healthy =>
    /\ mirror.at = "send" /\ mirror.then = "flatten" => account.orders \subseteq mirror.queue
    /\ mirror.at # "send" \/ mirror.then # "flatten" => account.orders = {}
    /\ mirror.at = "send" /\ mirror.then = "asleep" => account.positions \subseteq mirror.queue
    /\ mirror.at = "asleep" => account.positions = {}

(* Nothing comes back: until the window ends no poll reads what the book holds. *)
StaysEmpty ==
  cleared =>
    /\ InWeekendWindow(Now) /\ account.positions = {} /\ account.orders = {}
    /\ \/ mirror.at \in {"off", "top", "flatten", "asleep"}
       \/ mirror.at = "send" /\ mirror.then \in {"off", "flatten", "asleep"}

RightSide(p) == p.side = mirror.seen.open.side

(* What the account holds a poll has seen, and of the other side, or when the
   book is flat, only what is still to be closed. *)
Following ==
  mirror.healthy /\ ~mirror.weekend =>
    /\ mirror.at \in {"orders", "pending", "ahead", "place", "reconcile"}
         => account.positions \subseteq mirror.held
    /\ mirror.at = "send" /\ mirror.then \in {"ahead", "place"}
         => account.positions \subseteq mirror.held
    /\ mirror.at = "send" /\ mirror.then = "asleep" =>
         mirror.seen.open = None /\ account.positions \subseteq mirror.queue
    /\ mirror.at = "send" /\ mirror.then = "reopen" =>
         mirror.seen.open # None /\ \A p \in account.positions : p \in mirror.queue \/ RightSide(p)
    /\ mirror.at \in {"reopen", "open"} =>
         mirror.seen.open # None /\ \A p \in account.positions : RightSide(p)
    /\ mirror.at = "asleep" =>
         IF mirror.seen.open = None THEN account.positions = {} \/ mirror.ahead = 1
         ELSE \A p \in account.positions : RightSide(p)

Obeyed == WeekendOrder /\ Emptied /\ StaysEmpty /\ Following

(* What the book, the week, the broker's stops and the terminal do by themselves. *)
LEMMA LessIsObeyed ==
  ASSUME Obeyed, UNCHANGED mirror, account'.positions \subseteq account.positions,
         account'.orders \subseteq account.orders,
         cleared' => cleared /\ InWeekendWindow(Now)'
  PROVE  Obeyed'
<1>1. WeekendOrder' /\ StaysEmpty'
  BY DEF Obeyed, WeekendOrder, StaysEmpty
<1>2. Emptied'
  BY DEF Obeyed, Emptied
<1>3. Following'
  BY DEF Obeyed, Following, RightSide
<1> QED BY <1>1, <1>2, <1>3 DEF Obeyed

LEMMA OthersObey ==
  ASSUME Traded, Obeyed,
         BookOpens \/ BookCloses \/ BookRests \/ BookFills \/ BookCancels \/ BarCloses
         \/ WeekGoesOn \/ StopsOut \/ Expires \/ TerminalLost \/ TerminalBack
         \/ StopPlaced \/ StopTaken \/ UNCHANGED mirrorVars
  PROVE  Obeyed'
<1>0. WellFormed
  BY DEF Traded
<1>1. CASE BookOpens \/ BookCloses \/ BookRests \/ BookFills \/ BookCancels \/ BarCloses
           \/ StopPlaced \/ StopTaken \/ UNCHANGED mirrorVars
  <2>1. UNCHANGED <<moment, account, mirror, cleared>>
    BY <1>1 DEF BookOpens, BookCloses, BookRests, BookFills, BookCancels, BarCloses,
                StopPlaced, StopTaken, BookSteps, mirrorVars
  <2>2. cleared => InWeekendWindow(Now)
    BY DEF Obeyed, StaysEmpty
  <2>3. cleared' => cleared /\ InWeekendWindow(Now)'
    BY <2>1, <2>2 DEF Now
  <2> QED BY <2>1, <2>3, LessIsObeyed
<1>2. CASE WeekGoesOn
  <2>1. UNCHANGED <<account, mirror>> /\ cleared' = (cleared /\ InWeekendWindow(Week[moment']))
    BY <1>2 DEF WeekGoesOn
  <2>2. cleared' => cleared /\ InWeekendWindow(Now)'
    BY <2>1 DEF Now
  <2> QED BY <2>1, <2>2, LessIsObeyed
<1>3. CASE StopsOut \/ Expires \/ TerminalLost \/ TerminalBack
  <2>1. UNCHANGED <<moment, mirror, cleared>>
    BY <1>3 DEF StopsOut, Expires, TerminalLost, TerminalBack, Elsewhere
  <2>2. account'.positions \subseteq account.positions /\ account'.orders \subseteq account.orders
    <3>1. CASE StopsOut
      BY <1>0, <3>1, LeavingIsNoTrade DEF StopsOut
    <3>2. CASE Expires
      <4>1. PICK o \in account.orders :
              account' = [account EXCEPT !.orders = account.orders \ {o}]
        BY <3>2 DEF Expires, Withdrawn
      <4> QED BY <1>0, <4>1 DEF WellFormed
    <3>3. CASE TerminalLost \/ TerminalBack
      <4>1. \E up \in BOOLEAN : account' = [account EXCEPT !.up = up]
        BY <3>3 DEF TerminalLost, TerminalBack
      <4> QED BY <1>0, <4>1 DEF WellFormed
    <3> QED BY <1>3, <3>1, <3>2, <3>3
  <2>3. cleared => InWeekendWindow(Now)
    BY DEF Obeyed, StaysEmpty
  <2>4. cleared' => cleared /\ InWeekendWindow(Now)'
    BY <2>1, <2>3 DEF Now
  <2> QED BY <2>1, <2>2, <2>4, LessIsObeyed
<1> QED BY <1>1, <1>2, <1>3

(* A poll that begins has found nothing yet; one that ends in the window and had
   everything carried out leaves nothing. *)
LEMMA BeginningObeys ==
  ASSUME NoneIsNothing, Obeyed, Starts \/ Sleeps \/ Dies
  PROVE  Obeyed'
<1>1. /\ mirror'.at \in {"top", "off"} /\ mirror'.weekend = FALSE /\ mirror'.then = None
      /\ UNCHANGED <<account, moment>>
  BY DEF Starts, Sleeps, Dies, Polling, Elsewhere, OnlyMirror
<1>2. cleared' => InWeekendWindow(Now) /\ account.positions = {} /\ account.orders = {}
  <2>1. CASE Starts \/ Dies
    <3>1. cleared' = cleared
      BY <2>1 DEF Starts, Dies, OnlyMirror
    <3> QED BY <3>1 DEF Obeyed, StaysEmpty
  <2>2. CASE Sleeps
    <3>1. /\ mirror.at = "asleep"
          /\ cleared' => cleared \/ (mirror.weekend /\ mirror.healthy /\ InWeekendWindow(Now))
      BY <2>2 DEF Sleeps
    <3> QED BY <3>1 DEF Obeyed, StaysEmpty, Emptied
  <2> QED BY <2>1, <2>2
<1>3. StaysEmpty'
  BY <1>1, <1>2 DEF StaysEmpty, Now
<1>4. WeekendOrder' /\ Emptied' /\ Following'
  BY <1>1 DEF NoneIsNothing, WeekendOrder, Emptied, Following
<1> QED BY <1>3, <1>4 DEF Obeyed

(* The steps of the loop that read and decide. *)
LEMMA StepKeepsEmpty ==
  ASSUME Obeyed, UNCHANGED <<account, moment, cleared>>,
         \/ mirror'.at \in {"off", "top", "flatten", "asleep"}
         \/ mirror'.at = "send" /\ mirror'.then \in {"off", "flatten", "asleep"}
         \/ ~InWeekendWindow(Now)
         \/ ~(\/ mirror.at \in {"off", "top", "flatten", "asleep"}
              \/ mirror.at = "send" /\ mirror.then \in {"off", "flatten", "asleep"})
  PROVE  StaysEmpty'
BY DEF Obeyed, StaysEmpty, Now

LEMMA WeekendObeys ==
  ASSUME NoneIsNothing, Traded, Obeyed, SeesStop \/ WeekendPoll \/ Flattens
  PROVE  Obeyed'
<1>0. mirror = [at |-> mirror.at, then |-> mirror.then, weekend |-> mirror.weekend,
                seen |-> mirror.seen, held |-> mirror.held, waiting |-> mirror.waiting,
                queue |-> mirror.queue, ahead |-> mirror.ahead, pending |-> mirror.pending,
                healthy |-> mirror.healthy]
  BY DEF Traded, WellFormed
<1>1. UNCHANGED <<account, moment, cleared>>
  BY DEF SeesStop, WeekendPoll, Flattens, OnlyMirror, Elsewhere
<1>2. CASE WeekendPoll
  <2> DEFINE requests == IF mirror.pending THEN PendingOrders ELSE {}
  <2>a. PICK loop : loop = [mirror EXCEPT !.weekend = TRUE, !.healthy = account.up]
    OBVIOUS
  <2>1. loop = [at |-> mirror.at, then |-> mirror.then, weekend |-> TRUE,
                seen |-> mirror.seen, held |-> mirror.held, waiting |-> mirror.waiting,
                queue |-> mirror.queue, ahead |-> mirror.ahead, pending |-> mirror.pending,
                healthy |-> account.up]
    BY <1>0, <2>a
  <2>2. mirror' = Sending(loop, requests, "flatten")
    BY <1>2, <2>a DEF WeekendPoll
  <2>3. account.up => account.orders = requests
    BY DEF Traded, NothingRests, PendingOrders
  <2> HIDE DEF requests
  <2>4. /\ mirror'.weekend = TRUE /\ mirror'.healthy = account.up /\ mirror'.queue = requests
        /\ \/ requests = {} /\ mirror'.at = "flatten" /\ mirror'.then = None
           \/ requests # {} /\ mirror'.at = "send" /\ mirror'.then = "flatten"
    BY <2>1, <2>2, SendingGoesOn
  <2>5. WeekendOrder' /\ Emptied' /\ Following'
    BY <1>1, <2>3, <2>4 DEF NoneIsNothing, WeekendOrder, Emptied, Following
  <2>6. StaysEmpty'
    BY <1>1, <2>4, StepKeepsEmpty
  <2> QED BY <2>5, <2>6 DEF Obeyed
<1>3. CASE SeesStop \/ Flattens
  <2>a. PICK loop : loop = [mirror EXCEPT !.healthy = @ /\ account.up]
    OBVIOUS
  <2>1. loop = [at |-> mirror.at, then |-> mirror.then, weekend |-> mirror.weekend,
                seen |-> mirror.seen, held |-> mirror.held, waiting |-> mirror.waiting,
                queue |-> mirror.queue, ahead |-> mirror.ahead, pending |-> mirror.pending,
                healthy |-> (mirror.healthy /\ account.up)]
    BY <1>0, <2>a
  <2>2. \/ SeesStop /\ mirror.at = "top" /\ mirror' = Sending(loop, Positions, "off")
        \/ Flattens /\ mirror.at = "flatten" /\ mirror' = Sending(loop, Positions, "asleep")
    BY <1>3, <2>a DEF SeesStop, Flattens, Sends
  <2>3. account.up => account.positions = Positions
    BY DEF Positions
  <2>4. CASE SeesStop
    <3>1. mirror.at = "top" /\ mirror' = Sending(loop, Positions, "off")
      BY <2>2, <2>4 DEF SeesStop, Flattens
    <3>2. /\ mirror'.weekend = mirror.weekend
          /\ \/ mirror'.at = "off" /\ mirror'.then = None
             \/ mirror'.at = "send" /\ mirror'.then = "off"
      BY <2>1, <3>1, SendingGoesOn
    <3>3. ~mirror.weekend
      BY <3>1 DEF Obeyed, WeekendOrder
    <3>4. WeekendOrder' /\ Emptied' /\ Following'
      BY <3>2, <3>3 DEF NoneIsNothing, WeekendOrder, Emptied, Following
    <3>5. StaysEmpty'
      BY <1>1, <3>2, StepKeepsEmpty
    <3> QED BY <3>4, <3>5 DEF Obeyed
  <2>5. CASE Flattens
    <3>1. mirror.at = "flatten" /\ mirror' = Sending(loop, Positions, "asleep")
      BY <2>2, <2>5 DEF SeesStop, Flattens
    <3>2. mirror.weekend /\ (mirror.healthy => account.orders = {})
      BY <3>1 DEF Obeyed, WeekendOrder, Emptied
    <3>3. /\ mirror'.weekend = mirror.weekend
          /\ mirror'.healthy = (mirror.healthy /\ account.up) /\ mirror'.queue = Positions
          /\ \/ Positions = {} /\ mirror'.at = "asleep" /\ mirror'.then = None
             \/ Positions # {} /\ mirror'.at = "send" /\ mirror'.then = "asleep"
      BY <2>1, <3>1, SendingGoesOn
    <3>4. WeekendOrder' /\ Following'
      BY <3>2, <3>3 DEF NoneIsNothing, WeekendOrder, Following
    <3>5. Emptied'
      BY <1>1, <2>3, <3>2, <3>3 DEF NoneIsNothing, Emptied
    <3>6. StaysEmpty'
      BY <1>1, <3>3, StepKeepsEmpty
    <3> QED BY <3>4, <3>5, <3>6 DEF Obeyed
  <2> QED BY <1>3, <2>4, <2>5
<1> QED BY <1>2, <1>3

(* From the status read to the orders in agreement. *)
LEMMA ReadingObeys ==
  ASSUME NoneIsNothing, Traded, Obeyed,
         ReadsStatus \/ ReadsPositions \/ ReadsOrders \/ ReconcilesPending \/ FilledAhead
  PROVE  Obeyed'
<1>0. mirror = [at |-> mirror.at, then |-> mirror.then, weekend |-> mirror.weekend,
                seen |-> mirror.seen, held |-> mirror.held, waiting |-> mirror.waiting,
                queue |-> mirror.queue, ahead |-> mirror.ahead, pending |-> mirror.pending,
                healthy |-> mirror.healthy]
  BY DEF Traded, WellFormed
<1>1. UNCHANGED <<account, moment, cleared>>
  BY DEF ReadsStatus, ReadsPositions, ReadsOrders, ReconcilesPending, FilledAhead,
         OnlyMirror, Elsewhere
<1>2. /\ mirror.at \in {"top", "positions", "orders", "pending", "ahead"}
      /\ mirror.at = "top" => ~InWeekendWindow(Now)
  BY DEF ReadsStatus, ReadsPositions, ReadsOrders, ReconcilesPending, FilledAhead
<1>3. ~mirror.weekend
  BY <1>2 DEF Obeyed, WeekendOrder
<1>4. StaysEmpty'
  BY <1>1, <1>2, StepKeepsEmpty
<1>5. ASSUME ~mirror'.weekend, mirror'.at # "flatten",
             mirror'.at = "send" => mirror'.then \in {"asleep", "ahead", "place", "reopen"},
             Following'
      PROVE  Obeyed'
  BY <1>4, <1>5 DEF Obeyed, WeekendOrder, Emptied
<1>6. CASE ReadsStatus
  <2>1. \E seen : mirror' = [mirror EXCEPT !.at = "positions", !.seen = seen]
    BY <1>6 DEF ReadsStatus
  <2>2. mirror'.at = "positions" /\ mirror'.weekend = mirror.weekend
    BY <1>0, <2>1
  <2>3. Following'
    BY <2>2 DEF Following
  <2> QED BY <1>3, <1>5, <2>2, <2>3 DEF Obeyed, WeekendOrder
<1>7. CASE ReadsPositions
  <2>1. PICK at \in {"orders", "reconcile"} :
          mirror' = [mirror EXCEPT !.at = at, !.held = Positions, !.healthy = account.up]
    BY <1>7 DEF ReadsPositions
  <2>2. /\ mirror'.at = at /\ mirror'.weekend = mirror.weekend /\ mirror'.held = Positions
        /\ mirror'.healthy = account.up
    BY <1>0, <2>1
  <2>3. Following'
    BY <1>1, <2>2 DEF Following, Positions
  <2> QED BY <1>3, <1>5, <2>2, <2>3
<1>8. CASE ReadsOrders
  <2>1. /\ mirror.at = "orders"
        /\ mirror' = [mirror EXCEPT !.at = "pending", !.waiting = PendingOrders,
                                    !.healthy = @ /\ account.up]
    BY <1>8 DEF ReadsOrders
  <2>2. /\ mirror'.at = "pending" /\ mirror'.weekend = mirror.weekend
        /\ mirror'.held = mirror.held /\ mirror'.healthy = (mirror.healthy /\ account.up)
    BY <1>0, <2>1
  <2>3. Following'
    BY <1>1, <1>3, <2>1, <2>2 DEF Obeyed, Following
  <2> QED BY <1>3, <1>5, <2>2, <2>3
<1>9. CASE ReconcilesPending
  <2>a. PICK loop : loop = [mirror EXCEPT !.healthy = @ /\ account.up]
    OBVIOUS
  <2>1. loop = [at |-> mirror.at, then |-> mirror.then, weekend |-> mirror.weekend,
                seen |-> mirror.seen, held |-> mirror.held, waiting |-> mirror.waiting,
                queue |-> mirror.queue, ahead |-> mirror.ahead, pending |-> mirror.pending,
                healthy |-> (mirror.healthy /\ account.up)]
    BY <1>0, <2>a
  <2>2. \/ mirror' = [mirror EXCEPT !.at = "ahead"]
        \/ \E requests, next : next \in {"ahead", "place"} /\ mirror' = Sending(loop, requests, next)
    BY <1>9, <2>a DEF ReconcilesPending, Goes, Sends
  <2>3. mirror.at = "pending"
    BY <1>9 DEF ReconcilesPending
  <2>4. CASE mirror' = [mirror EXCEPT !.at = "ahead"]
    <3>1. /\ mirror'.at = "ahead" /\ mirror'.weekend = mirror.weekend
          /\ mirror'.held = mirror.held /\ mirror'.healthy = mirror.healthy
      BY <1>0, <2>4
    <3>2. Following'
      BY <1>1, <1>3, <2>3, <3>1 DEF Obeyed, Following
    <3> QED BY <1>3, <1>5, <3>1, <3>2
  <2>5. ASSUME NEW requests, NEW next \in {"ahead", "place"},
               mirror' = Sending(loop, requests, next)
        PROVE  Obeyed'
    <3>1. /\ mirror'.weekend = mirror.weekend /\ mirror'.held = mirror.held
          /\ mirror'.healthy = (mirror.healthy /\ account.up)
          /\ \/ mirror'.at = next
             \/ mirror'.at = "send" /\ mirror'.then = next
      BY <2>1, <2>5, SendingGoesOn
    <3>2. Following'
      BY <1>1, <1>3, <2>3, <3>1 DEF Obeyed, Following
    <3> QED BY <1>3, <1>5, <3>1, <3>2
  <2> QED BY <2>2, <2>4, <2>5
<1>10. CASE FilledAhead
  <2> DEFINE early == mirror.seen.open = None /\ mirror.seen.pending # None /\ mirror.held # {}
             polls == IF early THEN IF mirror.ahead < 2 THEN mirror.ahead + 1 ELSE 2 ELSE 0
  <2>1. /\ mirror.at = "ahead"
        /\ mirror' = [mirror EXCEPT !.ahead = polls,
                                    !.at = IF polls = 1 THEN "asleep" ELSE "reconcile"]
    BY <1>10 DEF FilledAhead
  <2>2. polls = 1 => mirror.seen.open = None
    OBVIOUS
  <2> HIDE DEF polls
  <2>3. /\ mirror'.weekend = mirror.weekend /\ mirror'.held = mirror.held
        /\ mirror'.healthy = mirror.healthy /\ mirror'.seen = mirror.seen
        /\ mirror'.ahead = polls /\ mirror'.at = (IF polls = 1 THEN "asleep" ELSE "reconcile")
    BY <1>0, <2>1
  <2>4. Following'
    BY <1>1, <1>3, <2>1, <2>2, <2>3 DEF Obeyed, Following
  <2> QED BY <1>3, <1>5, <2>3, <2>4
<1> QED BY <1>6, <1>7, <1>8, <1>9, <1>10

(* From the book compared to the account entered again. *)
LEMMA DecidingObeys ==
  ASSUME NoneIsNothing, Traded, Obeyed, Reconciles \/ Reopens
  PROVE  Obeyed'
<1>0. mirror = [at |-> mirror.at, then |-> mirror.then, weekend |-> mirror.weekend,
                seen |-> mirror.seen, held |-> mirror.held, waiting |-> mirror.waiting,
                queue |-> mirror.queue, ahead |-> mirror.ahead, pending |-> mirror.pending,
                healthy |-> mirror.healthy]
  BY DEF Traded, WellFormed
<1>1. UNCHANGED <<account, moment, cleared>>
  BY DEF Reconciles, Reopens, OnlyMirror, Elsewhere
<1>2. mirror.at \in {"reconcile", "reopen"}
  BY DEF Reconciles, Reopens
<1>3. ~mirror.weekend
  BY <1>2 DEF Obeyed, WeekendOrder
<1>4. StaysEmpty'
  BY <1>1, <1>2, StepKeepsEmpty
<1>5. ASSUME ~mirror'.weekend, mirror'.at # "flatten",
             mirror'.at = "send" => mirror'.then \in {"asleep", "ahead", "place", "reopen"},
             Following'
      PROVE  Obeyed'
  BY <1>4, <1>5 DEF Obeyed, WeekendOrder, Emptied
<1>6. CASE Reconciles
  <2> DEFINE wrong == WrongSide(mirror.held, mirror.seen.open.side)
  <2>a. PICK loop : loop = [mirror EXCEPT !.held = {}, !.waiting = {}]
    OBVIOUS
  <2>1. loop = [at |-> mirror.at, then |-> mirror.then, weekend |-> mirror.weekend,
                seen |-> mirror.seen, held |-> {}, waiting |-> {},
                queue |-> mirror.queue, ahead |-> mirror.ahead, pending |-> mirror.pending,
                healthy |-> mirror.healthy]
    BY <1>0, <2>a
  <2>2. \/ mirror.seen.open = None /\ mirror' = Sending(loop, mirror.held, "asleep")
        \/ /\ mirror.seen.open # None /\ mirror.held = {}
           /\ mirror' = Sending(loop, {}, "open")
        \/ /\ mirror.seen.open # None
           /\ mirror' = Sending(loop, wrong, IF wrong = {} THEN "asleep" ELSE "reopen")
    BY <1>6, <2>a DEF Reconciles
  <2>3. mirror.healthy => account.positions \subseteq mirror.held
    BY <1>3, <1>6 DEF Obeyed, Following, Reconciles
  <2>4. \A p \in mirror.held : p \in wrong \/ RightSide(p)
    BY DEF WrongSide, RightSide
  <2> HIDE DEF wrong
  <2>5. CASE mirror.seen.open = None /\ mirror' = Sending(loop, mirror.held, "asleep")
    <3>1. /\ mirror'.weekend = mirror.weekend /\ mirror'.queue = mirror.held
          /\ mirror'.healthy = mirror.healthy /\ mirror'.seen = mirror.seen
          /\ \/ mirror.held = {} /\ mirror'.at = "asleep"
             \/ mirror.held # {} /\ mirror'.at = "send" /\ mirror'.then = "asleep"
      BY <2>1, <2>5, SendingGoesOn
    <3>2. Following'
      BY <1>1, <1>3, <2>3, <2>5, <3>1 DEF Following
    <3> QED BY <1>3, <1>5, <3>1, <3>2
  <2>6. CASE /\ mirror.seen.open # None /\ mirror.held = {}
             /\ mirror' = Sending(loop, {}, "open")
    <3>1. /\ mirror'.weekend = mirror.weekend /\ mirror'.healthy = mirror.healthy
          /\ mirror'.seen = mirror.seen /\ mirror'.at = "open"
      BY <2>1, <2>6, SendingGoesOn
    <3>2. Following'
      BY <1>1, <1>3, <2>3, <2>6, <3>1 DEF Following
    <3> QED BY <1>3, <1>5, <3>1, <3>2
  <2>7. CASE /\ mirror.seen.open # None
             /\ mirror' = Sending(loop, wrong, IF wrong = {} THEN "asleep" ELSE "reopen")
    <3>a. PICK next : next = (IF wrong = {} THEN "asleep" ELSE "reopen")
      OBVIOUS
    <3>b. mirror' = Sending(loop, wrong, next)
      BY <2>7, <3>a
    <3>1. /\ mirror'.weekend = mirror.weekend /\ mirror'.queue = wrong
          /\ mirror'.healthy = mirror.healthy /\ mirror'.seen = mirror.seen
          /\ \/ wrong = {} /\ mirror'.at = "asleep"
             \/ wrong # {} /\ mirror'.at = "send" /\ mirror'.then = "reopen"
      BY <2>1, <3>a, <3>b, SendingGoesOn
    <3>2. Following'
      BY <1>1, <1>3, <2>3, <2>4, <2>7, <3>1 DEF Following, RightSide
    <3> QED BY <1>3, <1>5, <3>1, <3>2
  <2> QED BY <2>2, <2>5, <2>6, <2>7
<1>7. CASE Reopens
  <2>1. PICK at \in {"open", "asleep"} : mirror' = [mirror EXCEPT !.at = at]
    BY <1>7 DEF Reopens, Goes
  <2>2. /\ mirror'.at = at /\ mirror'.weekend = mirror.weekend
        /\ mirror'.healthy = mirror.healthy /\ mirror'.seen = mirror.seen
    BY <1>0, <2>1
  <2>3. mirror.at = "reopen"
    BY <1>7 DEF Reopens
  <2>4. Following'
    BY <1>1, <1>3, <2>2, <2>3 DEF Obeyed, Following, RightSide
  <2> QED BY <1>3, <1>5, <2>2, <2>4
<1> QED BY <1>6, <1>7

(* A request that is sent leaves the queue, and what it was for the account
   or the poll its health. *)
LEMMA RequestObeys ==
  ASSUME NoneIsNothing, Traded, Obeyed, SendsOne
  PROVE  Obeyed'
<1>0. mirror = [at |-> mirror.at, then |-> mirror.then, weekend |-> mirror.weekend,
                seen |-> mirror.seen, held |-> mirror.held, waiting |-> mirror.waiting,
                queue |-> mirror.queue, ahead |-> mirror.ahead, pending |-> mirror.pending,
                healthy |-> mirror.healthy]
  BY DEF Traded, WellFormed
<1>1. mirror.at = "send" /\ UNCHANGED <<moment, cleared>>
  BY DEF SendsOne, Elsewhere
<1>2. PICK r \in mirror.queue :
        /\ \/ r \in account.positions /\ account' = Left(account, r)
           \/ r \in account.orders /\ account' = Withdrawn(account, r)
           \/ UNCHANGED account
        /\ mirror' = Sending([mirror EXCEPT !.healthy =
                                @ /\ r \notin account'.positions \cup account'.orders],
                             mirror.queue \ {r}, mirror.then)
  BY DEF SendsOne
<1>3. /\ account'.positions \subseteq account.positions
      /\ account'.orders \subseteq account.orders
  <2>1. CASE r \in account.positions /\ account' = Left(account, r)
    BY <2>1, LeavingIsNoTrade DEF Traded
  <2>2. CASE r \in account.orders /\ account' = Withdrawn(account, r)
    BY <2>2 DEF Withdrawn, Traded, WellFormed
  <2> QED BY <1>2, <2>1, <2>2
<1>4. PICK gone : gone = (r \notin account'.positions \cup account'.orders)
  OBVIOUS
<1>5. PICK loop : loop = [mirror EXCEPT !.healthy = @ /\ gone]
  OBVIOUS
<1>6. loop = [at |-> mirror.at, then |-> mirror.then, weekend |-> mirror.weekend,
              seen |-> mirror.seen, held |-> mirror.held, waiting |-> mirror.waiting,
              queue |-> mirror.queue, ahead |-> mirror.ahead, pending |-> mirror.pending,
              healthy |-> (mirror.healthy /\ gone)]
  BY <1>0, <1>5
<1>7. PICK rest, next : rest = mirror.queue \ {r} /\ next = mirror.then
  OBVIOUS
<1>8. mirror' = Sending(loop, rest, next)
  BY <1>2, <1>4, <1>5, <1>7
<1>9. /\ mirror'.weekend = mirror.weekend /\ mirror'.seen = mirror.seen
      /\ mirror'.held = mirror.held /\ mirror'.queue = rest
      /\ mirror'.healthy = (mirror.healthy /\ gone)
      /\ \/ rest = {} /\ mirror'.at = next /\ mirror'.then = None
         \/ rest # {} /\ mirror'.at = "send" /\ mirror'.then = next
  BY <1>6, <1>8, SendingGoesOn
<1>10. mirror'.healthy =>
         /\ mirror.healthy
         /\ \A p \in account'.positions \cup account'.orders : p \in mirror.queue => p \in rest
  BY <1>4, <1>7, <1>9
<1>11. WeekendOrder'
  BY <1>1, <1>7, <1>9 DEF NoneIsNothing, Obeyed, WeekendOrder
<1>12. StaysEmpty'
  <2> SUFFICES ASSUME cleared' PROVE StaysEmpty'
    BY DEF StaysEmpty
  <2>1. /\ InWeekendWindow(Now) /\ account'.positions = {} /\ account'.orders = {}
        /\ mirror.then \in {"off", "flatten", "asleep"}
    BY <1>1, <1>3 DEF Obeyed, StaysEmpty
  <2> QED BY <1>1, <1>7, <1>9, <2>1 DEF StaysEmpty, Now
<1>13. Emptied'
  <2> SUFFICES ASSUME mirror'.weekend, mirror'.healthy PROVE Emptied'
    BY DEF Emptied
  <2>1. mirror.weekend /\ mirror.healthy /\ mirror.then \in {"flatten", "asleep"}
    BY <1>1, <1>9, <1>10 DEF Obeyed, WeekendOrder
  <2>2. CASE mirror.then = "flatten"
    <3>1. account'.orders \subseteq rest
      BY <1>1, <1>3, <1>10, <2>1, <2>2 DEF Obeyed, Emptied
    <3> QED BY <1>7, <1>9, <2>2, <3>1 DEF NoneIsNothing, Emptied
  <2>3. CASE mirror.then = "asleep"
    <3>1. account'.orders = {} /\ account'.positions \subseteq rest
      BY <1>1, <1>3, <1>10, <2>1, <2>3 DEF Obeyed, Emptied
    <3> QED BY <1>7, <1>9, <2>3, <3>1 DEF NoneIsNothing, Emptied
  <2> QED BY <2>1, <2>2, <2>3
<1>14. Following'
  <2> SUFFICES ASSUME mirror'.healthy, ~mirror'.weekend PROVE Following'
    BY DEF Following
  <2>1. mirror.healthy /\ ~mirror.weekend
    BY <1>9, <1>10
  <2>2. Following
    BY DEF Obeyed
  <2>3. CASE mirror.then \in {"ahead", "place"}
    <3>1. account'.positions \subseteq mirror'.held
      BY <1>1, <1>3, <1>9, <2>1, <2>2, <2>3 DEF Following
    <3> QED BY <1>7, <1>9, <2>3, <3>1 DEF NoneIsNothing, Following
  <2>4. CASE mirror.then = "asleep"
    <3>1. mirror'.seen.open = None /\ account'.positions \subseteq rest
      BY <1>1, <1>3, <1>9, <1>10, <2>1, <2>2, <2>4 DEF Following
    <3> QED BY <1>7, <1>9, <2>4, <3>1 DEF NoneIsNothing, Following
  <2>5. CASE mirror.then = "reopen"
    <3>1. mirror'.seen.open # None /\ \A p \in account'.positions : p \in rest \/ RightSide(p)'
      BY <1>1, <1>3, <1>9, <1>10, <2>1, <2>2, <2>5 DEF Following, RightSide
    <3> QED BY <1>7, <1>9, <2>5, <3>1 DEF NoneIsNothing, Following
  <2>6. CASE mirror.then \in {"off", "flatten"}
    BY <1>7, <1>9, <2>6 DEF NoneIsNothing, Following
  <2> QED BY <1>1, <2>3, <2>4, <2>5, <2>6 DEF Obeyed, WeekendOrder
<1> QED BY <1>11, <1>12, <1>13, <1>14 DEF Obeyed

(* An order placed and a position opened are the book's; what the broker fills
   takes the poll its health, and there is nothing to fill once all was cleared. *)
LEMMA EnteringObeys ==
  ASSUME NoneIsNothing, Traded, Obeyed, PlacesPending \/ Opens \/ OrderFills
  PROVE  Obeyed'
<1>0. mirror = [at |-> mirror.at, then |-> mirror.then, weekend |-> mirror.weekend,
                seen |-> mirror.seen, held |-> mirror.held, waiting |-> mirror.waiting,
                queue |-> mirror.queue, ahead |-> mirror.ahead, pending |-> mirror.pending,
                healthy |-> mirror.healthy]
  BY DEF Traded, WellFormed
<1>1. UNCHANGED <<moment, cleared>>
  BY DEF PlacesPending, Opens, OrderFills, Elsewhere
<1>2. CASE PlacesPending \/ Opens
  <2>1. /\ mirror.at \in {"place", "open"}
        /\ mirror' = [mirror EXCEPT !.at = IF mirror.at = "place" THEN "ahead" ELSE "asleep"]
    BY <1>2 DEF PlacesPending, Opens, Goes
  <2>2. /\ mirror'.at = (IF mirror.at = "place" THEN "ahead" ELSE "asleep")
        /\ mirror'.weekend = mirror.weekend /\ mirror'.healthy = mirror.healthy
        /\ mirror'.held = mirror.held /\ mirror'.seen = mirror.seen
    BY <1>0, <2>1
  <2>3. ~mirror.weekend /\ ~cleared
    BY <2>1 DEF Obeyed, WeekendOrder, StaysEmpty
  <2>4. WeekendOrder' /\ Emptied' /\ StaysEmpty'
    BY <1>1, <2>2, <2>3 DEF WeekendOrder, Emptied, StaysEmpty
  <2>5. CASE PlacesPending
    <3>1. mirror.at = "place" /\ account'.positions = account.positions
      BY <2>5 DEF PlacesPending, Traded, WellFormed
    <3>2. Following'
      BY <2>2, <2>3, <3>1 DEF Obeyed, Following
    <3> QED BY <2>4, <3>2 DEF Obeyed
  <2>6. CASE Opens
    <3>1. \/ account' = Positioned(account, mirror.seen.open.side, mirror.seen.open.id)
          \/ UNCHANGED account
      BY <2>6 DEF Opens
    <3>2. \A p \in account'.positions :
            p \in account.positions \/ p.side = mirror.seen.open.side
      <4>1. CASE UNCHANGED account
        BY <4>1
      <4>2. CASE account' = Positioned(account, mirror.seen.open.side, mirror.seen.open.id)
        <5>1. PICK p : p = [ticket |-> account.tickets + 1, side |-> mirror.seen.open.side,
                            of |-> mirror.seen.open.id, at |-> bar]
          OBVIOUS
        <5>2. account' = [account EXCEPT !.tickets = @ + 1, !.positions = @ \cup {p}]
          BY <4>2, <5>1 DEF Positioned
        <5>3. account'.positions = account.positions \cup {p}
          BY <5>2 DEF Traded, WellFormed
        <5> QED BY <5>1, <5>3
      <4> QED BY <3>1, <4>1, <4>2
    <3>3. mirror.at = "open"
      BY <2>6 DEF Opens
    <3>4. Following'
      BY <2>2, <2>3, <3>2, <3>3 DEF Obeyed, Following, RightSide
    <3> QED BY <2>4, <3>4 DEF Obeyed
  <2> QED BY <1>2, <2>5, <2>6
<1>3. CASE OrderFills
  <2>1. mirror' = [mirror EXCEPT !.healthy = FALSE]
    BY <1>3 DEF OrderFills
  <2>2. /\ mirror'.at = mirror.at /\ mirror'.then = mirror.then
        /\ mirror'.weekend = mirror.weekend /\ mirror'.healthy = FALSE
    BY <1>0, <2>1
  <2>3. ~cleared
    BY <1>3 DEF OrderFills, Obeyed, StaysEmpty
  <2>4. WeekendOrder' /\ Emptied' /\ StaysEmpty' /\ Following'
    BY <1>1, <2>2, <2>3 DEF Obeyed, WeekendOrder, Emptied, StaysEmpty, Following
  <2> QED BY <2>4 DEF Obeyed
<1> QED BY <1>2, <1>3

LEMMA BeginsObeying ==
  ASSUME NoneIsNothing, MirrorInit
  PROVE  Obeyed
<1>1. PICK pending : mirror = Polling("off", 0, pending)
  BY DEF MirrorInit
<1>2. mirror.at = "off" /\ ~mirror.weekend /\ ~cleared
  BY <1>1 DEF MirrorInit, Polling
<1> QED BY <1>2 DEF NoneIsNothing, Obeyed, WeekendOrder, Emptied, StaysEmpty, Following

LEMMA StepObeys ==
  ASSUME NoneIsNothing, Traded, Obeyed, [MirrorNext]_mirrorVars
  PROVE  Obeyed'
<1>1. CASE BookOpens \/ BookCloses \/ BookRests \/ BookFills \/ BookCancels \/ BarCloses
           \/ WeekGoesOn \/ StopsOut \/ Expires \/ TerminalLost \/ TerminalBack
           \/ StopPlaced \/ StopTaken \/ UNCHANGED mirrorVars
  BY <1>1, OthersObey
<1>2. CASE Starts \/ Sleeps \/ Dies
  BY <1>2, BeginningObeys
<1>3. CASE SeesStop \/ WeekendPoll \/ Flattens
  BY <1>3, WeekendObeys
<1>4. CASE ReadsStatus \/ ReadsPositions \/ ReadsOrders \/ ReconcilesPending \/ FilledAhead
  BY <1>4, ReadingObeys
<1>5. CASE Reconciles \/ Reopens
  BY <1>5, DecidingObeys
<1>6. CASE SendsOne
  BY <1>6, RequestObeys
<1>7. CASE PlacesPending \/ Opens \/ OrderFills
  BY <1>7, EnteringObeys
<1> QED BY <1>1, <1>2, <1>3, <1>4, <1>5, <1>6, <1>7 DEF MirrorNext

LEMMA AlwaysObeyed ==
  ASSUME NoneIsNothing
  PROVE  MirrorSpec => [](Traded /\ Obeyed)
<1>1. MirrorInit => Traded /\ Obeyed
  BY StartsUntraded, BeginsObeying
<1>2. Traded /\ Obeyed /\ [MirrorNext]_mirrorVars => (Traded /\ Obeyed)'
  BY TradedKept, StepObeys
<1> QED BY <1>1, <1>2, PTL DEF MirrorSpec

(* A window in which one poll found the terminal and had its requests        *)
(* carried out leaves nothing on the account, and nothing comes back before  *)
(* the window ends, for any week, any broker and any end of the loop.        *)
THEOREM EmptyOverWeekends ==
  ASSUME NoneIsNothing
  PROVE  MirrorSpec => []FlatOverWeekend
<1>1. Obeyed => FlatOverWeekend
  BY DEF Obeyed, StaysEmpty, FlatOverWeekend
<1> QED BY <1>1, AlwaysObeyed, PTL

(* A poll that was answered ends with the account on the side the book was   *)
(* on, and flat if it was, but for one poll after an early fill, for any     *)
(* book, any broker and with resting orders or without.                      *)
THEOREM PollsFollowTheBook ==
  ASSUME NoneIsNothing
  PROVE  MirrorSpec => []FollowsTheBook
<1>1. Obeyed => FollowsTheBook
  BY DEF Obeyed, Following, RightSide, FollowsTheBook
<1> QED BY <1>1, AlwaysObeyed, PTL

-----------------------------------------------------------------------------
(***************************************************************************)
(* That the desk's handlers cannot wait for one another, for any number of *)
(* workers and of runs: every lock but `paper` is dropped by the very next *)
(* step, and `paper` is never asked for by a worker that holds a lock.     *)
(* `act`, which takes `paper` under `live_bars`, is left out: with it a    *)
(* run finds the circle.                                                   *)
(***************************************************************************)
InOrderHandlers ==
  {"start", "stop", "bar", "tick", "status", "detail", "pending", "intent", "m1",
   "guards_get", "guards_set"}

Leaves == {"live_bars", "m1", "guard_edits"}
Brief == [op : {"take", "drop"}, lock : Leaves] \cup {Share("guard_edits")}
Ops == Brief \cup {Take("paper"), Drop("paper")}

(* A leaf is dropped where it was taken. *)
LeavesEnd(s) ==
  \A i \in DOMAIN s : s[i].lock \in Leaves /\ s[i].op # "drop" =>
    i + 1 \in DOMAIN s /\ s[i + 1] = Drop(s[i].lock)

(* The next that is said of `paper` after i is that it is dropped. *)
PaperEnds(s, i) ==
  \E j \in DOMAIN s : /\ i < j /\ s[j] = Drop("paper")
                      /\ \A k \in DOMAIN s : i < k /\ k < j => s[k].lock # "paper"

PapersEnd(s) == \A i \in DOMAIN s : s[i] = Take("paper") => PaperEnds(s, i)

Flat == {s \in Seq(Brief) : LeavesEnd(s)}
Nested == {s \in Seq(Ops) : LeavesEnd(s) /\ PapersEnd(s)}

LEMMA OpsAreApart ==
  /\ \A x \in Brief : x \in Ops /\ x.lock \in Leaves /\ x.lock # "paper"
  /\ \A x \in Ops : x.lock \in Leaves \cup {"paper"} /\ x.op \in {"take", "share", "drop"}
  /\ \A x \in Ops : x.op = "drop" => x = Drop(x.lock)
  /\ \A x \in Ops : x.op = "take" => x = Take(x.lock)
  /\ \A x \in Ops : x.op = "share" => x.lock = "guard_edits"
  /\ \A lock : /\ Take(lock).op = "take" /\ Take(lock).lock = lock
               /\ Share(lock).op = "share" /\ Share(lock).lock = lock
               /\ Drop(lock).op = "drop" /\ Drop(lock).lock = lock
BY DEF Ops, Brief, Leaves, Take, Share, Drop

(* Two sequences put together: the steps keep their places. *)
JoinOf(s, t, u, n, m) ==
  /\ DOMAIN s = 1..n /\ DOMAIN t = 1..m /\ DOMAIN u = 1..(n + m)
  /\ \A i \in 1..n : u[i] = s[i]
  /\ \A i \in 1..m : u[n + i] = t[i]

LEMMA JoinedAt ==
  ASSUME NEW S, NEW s \in Seq(S), NEW t \in Seq(S)
  PROVE  \E n, m \in Nat : JoinOf(s, t, s \o t, n, m)
<1>1. s \o t \in Seq(S) /\ Len(s) \in Nat /\ Len(t) \in Nat
  OBVIOUS
<1>2. Len(s \o t) = Len(s) + Len(t)
      /\ \A i \in 1..(Len(s) + Len(t)) :
           (s \o t)[i] = IF i <= Len(s) THEN s[i] ELSE t[i - Len(s)]
  BY ConcatProperties
<1>3. DOMAIN s = 1..Len(s) /\ DOMAIN t = 1..Len(t) /\ DOMAIN (s \o t) = 1..Len(s \o t)
  BY <1>1
<1>4. \A n, m \in Nat : \A i \in 1..n : i \in 1..(n + m) /\ i <= n
  OBVIOUS
<1>5. \A n, m \in Nat : \A i \in 1..m : n + i \in 1..(n + m) /\ ~(n + i <= n) /\ (n + i) - n = i
  OBVIOUS
<1>6. \A i \in 1..Len(s) : (s \o t)[i] = s[i]
  BY <1>1, <1>2, <1>4
<1>7. \A i \in 1..Len(t) : (s \o t)[Len(s) + i] = t[i]
  BY <1>1, <1>2, <1>5
<1> QED BY <1>1, <1>2, <1>3, <1>6, <1>7 DEF JoinOf

LEMMA LeavesEndJoined ==
  ASSUME NEW s \in Seq(Ops), NEW t \in Seq(Ops), LeavesEnd(s), LeavesEnd(t)
  PROVE  LeavesEnd(s \o t)
<1> DEFINE u == s \o t
<1>0. PICK n, m \in Nat : JoinOf(s, t, u, n, m)
  BY JoinedAt
<1> HIDE DEF u
<1>1. /\ DOMAIN s = 1..n /\ DOMAIN t = 1..m /\ DOMAIN u = 1..(n + m)
      /\ \A i \in 1..n : u[i] = s[i]
      /\ \A i \in 1..m : u[n + i] = t[i]
  BY <1>0 DEF JoinOf
<1> SUFFICES ASSUME NEW i \in 1..(n + m), u[i].lock \in Leaves, u[i].op # "drop"
             PROVE  i + 1 \in 1..(n + m) /\ u[i + 1] = Drop(u[i].lock)
  BY <1>1 DEF LeavesEnd, u
<1>2. CASE i \in 1..n
  <2>1. i + 1 \in 1..n /\ s[i + 1] = Drop(s[i].lock)
    BY <1>1, <1>2 DEF LeavesEnd
  <2> QED BY <1>1, <1>2, <2>1
<1>3. CASE i \notin 1..n
  <2>1. PICK k \in 1..m : i = n + k
    <3>1. i - n \in 1..m /\ i = n + (i - n)
      BY <1>3
    <3> QED BY <3>1
  <2>2. u[i] = t[k]
    BY <1>1, <2>1
  <2>3. k + 1 \in 1..m /\ t[k + 1] = Drop(t[k].lock)
    BY <1>1, <2>2 DEF LeavesEnd
  <2>4. i + 1 = n + (k + 1) /\ i + 1 \in 1..(n + m)
    BY <2>1, <2>3
  <2> QED BY <1>1, <2>2, <2>3, <2>4
<1> QED BY <1>2, <1>3

LEMMA PapersEndJoined ==
  ASSUME NEW s \in Seq(Ops), NEW t \in Seq(Ops), PapersEnd(s), PapersEnd(t)
  PROVE  PapersEnd(s \o t)
<1> DEFINE u == s \o t
<1>0. PICK n, m \in Nat : JoinOf(s, t, u, n, m)
  BY JoinedAt
<1> HIDE DEF u
<1>1. /\ DOMAIN s = 1..n /\ DOMAIN t = 1..m /\ DOMAIN u = 1..(n + m)
      /\ \A i \in 1..n : u[i] = s[i]
      /\ \A i \in 1..m : u[n + i] = t[i]
  BY <1>0 DEF JoinOf
<1> SUFFICES ASSUME NEW i \in 1..(n + m), u[i] = Take("paper")
             PROVE  PaperEnds(u, i)
  BY <1>1 DEF PapersEnd, u
<1>2. CASE i \in 1..n
  <2>1. PICK j \in 1..n : /\ i < j /\ s[j] = Drop("paper")
                          /\ \A k \in 1..n : i < k /\ k < j => s[k].lock # "paper"
    <3>1. PaperEnds(s, i)
      BY <1>1, <1>2 DEF PapersEnd
    <3> QED BY <1>1, <3>1 DEF PaperEnds
  <2>2. \A k \in 1..(n + m) : k < j => k \in 1..n
    OBVIOUS
  <2>3. j \in 1..(n + m) /\ u[j] = Drop("paper")
    BY <1>1, <2>1
  <2>4. \A k \in 1..(n + m) : i < k /\ k < j => u[k].lock # "paper"
    BY <1>1, <2>1, <2>2
  <2> QED BY <1>1, <2>1, <2>3, <2>4 DEF PaperEnds
<1>3. CASE i \notin 1..n
  <2>1. PICK k \in 1..m : i = n + k
    <3>1. i - n \in 1..m /\ i = n + (i - n)
      BY <1>3
    <3> QED BY <3>1
  <2>2. t[k] = Take("paper")
    BY <1>1, <2>1
  <2>3. PICK j \in 1..m : /\ k < j /\ t[j] = Drop("paper")
                          /\ \A l \in 1..m : k < l /\ l < j => t[l].lock # "paper"
    <3>1. PaperEnds(t, k)
      BY <1>1, <2>2 DEF PapersEnd
    <3> QED BY <1>1, <3>1 DEF PaperEnds
  <2>4. n + j \in 1..(n + m) /\ i < n + j /\ u[n + j] = Drop("paper")
    BY <1>1, <2>1, <2>3
  <2>5. ASSUME NEW l \in 1..(n + m), i < l, l < n + j PROVE u[l].lock # "paper"
    <3>1. l - n \in 1..m /\ l = n + (l - n) /\ k < l - n /\ l - n < j
      BY <2>1, <2>5
    <3>2. u[l] = t[l - n]
      BY <1>1, <3>1
    <3> QED BY <2>3, <3>1, <3>2
  <2> QED BY <1>1, <2>4, <2>5 DEF PaperEnds
<1> QED BY <1>2, <1>3

LEMMA FlatJoins == \A s, t \in Flat : s \o t \in Flat
<1> SUFFICES ASSUME NEW s \in Flat, NEW t \in Flat PROVE s \o t \in Flat
  OBVIOUS
<1>1. s \in Seq(Brief) /\ t \in Seq(Brief) /\ LeavesEnd(s) /\ LeavesEnd(t)
  BY DEF Flat
<1>2. s \o t \in Seq(Brief)
  BY <1>1
<1>3. Brief \subseteq Ops
  BY DEF Ops
<1>4. s \in Seq(Ops) /\ t \in Seq(Ops)
  BY <1>1, <1>3
<1> QED BY <1>1, <1>2, <1>4, LeavesEndJoined DEF Flat

LEMMA NestedJoins == \A s, t \in Nested : s \o t \in Nested
<1> SUFFICES ASSUME NEW s \in Nested, NEW t \in Nested PROVE s \o t \in Nested
  OBVIOUS
<1>1. s \in Seq(Ops) /\ t \in Seq(Ops) /\ LeavesEnd(s) /\ LeavesEnd(t)
      /\ PapersEnd(s) /\ PapersEnd(t)
  BY DEF Nested
<1>2. s \o t \in Seq(Ops)
  BY <1>1
<1> QED BY <1>1, <1>2, LeavesEndJoined, PapersEndJoined DEF Nested

LEMMA FlatIsNested == Flat \subseteq Nested
<1> SUFFICES ASSUME NEW s \in Flat PROVE s \in Nested
  OBVIOUS
<1>1. s \in Seq(Brief) /\ LeavesEnd(s) /\ Brief \subseteq Ops
  BY DEF Flat, Ops
<1>2. s \in Seq(Ops)
  BY <1>1
<1>3. \A i \in DOMAIN s : s[i] \in Brief
  BY <1>1
<1>4. PapersEnd(s)
  BY <1>3, OpsAreApart DEF PapersEnd
<1> QED BY <1>1, <1>2, <1>4 DEF Nested

(* One leaf, taken and dropped. *)
LEMMA PairIsFlat ==
  ASSUME NEW x \in Brief, x.op # "drop"
  PROVE  <<x, Drop(x.lock)>> \in Flat
<1> DEFINE s == <<x, Drop(x.lock)>>
<1>1. Drop(x.lock) \in Brief
  <2>1. x.lock \in Leaves
    BY OpsAreApart
  <2> QED BY <2>1 DEF Brief, Drop
<1>2. s \in Seq(Brief) /\ DOMAIN s = {1, 2} /\ s[1] = x /\ s[2] = Drop(x.lock)
  BY <1>1
<1> HIDE DEF s
<1>3. LeavesEnd(s)
  <2> SUFFICES ASSUME NEW i \in {1, 2}, s[i].op # "drop"
               PROVE  i + 1 \in {1, 2} /\ s[i + 1] = Drop(s[i].lock)
    BY <1>2 DEF LeavesEnd
  <2>1. i # 2
    BY <1>2, OpsAreApart
  <2> QED BY <1>2, <2>1
<1> QED BY <1>2, <1>3 DEF Flat, s

LEMMA BrieflyIsFlat ==
  /\ \A lock \in Leaves : Briefly(lock) \in Flat
  /\ GuardsFor \in Flat /\ LiveBarOf \in Flat
<1>1. ASSUME NEW lock \in Leaves PROVE Briefly(lock) \in Flat
  <2>1. Take(lock) \in Brief /\ Take(lock).op # "drop" /\ Take(lock).lock = lock
    BY DEF Brief, Take
  <2>2. <<Take(lock), Drop(lock)>> \in Flat
    BY <2>1, PairIsFlat
  <2>5. Drop(lock) \in Brief
    BY DEF Brief, Drop
  <2>3. ASSUME NEW x \in Brief, NEW y \in Brief
        PROVE  (<<x>> \o << >>) \o <<y>> = <<x, y>>
    <3>1. <<x>> \in Seq(Brief)
      OBVIOUS
    <3>2. <<x>> \o << >> = <<x>> /\ <<x>> \o <<y>> = Append(<<x>>, y)
      BY <3>1, ConcatEmptySeq, AppendIsConcat
    <3>3. Append(<<x>>, y) = <<x, y>>
      <4> DEFINE a == Append(<<x>>, y)
                 b == <<x, y>>
      <4>1. a \in Seq(Brief) /\ Len(a) = 2 /\ a[1] = x /\ a[2] = y
        BY <3>1
      <4>2. b \in Seq(Brief) /\ Len(b) = 2 /\ b[1] = x /\ b[2] = y
        OBVIOUS
      <4> HIDE DEF a, b
      <4>3. \A i \in 1..Len(a) : a[i] = b[i]
        BY <4>1, <4>2
      <4>4. a = b
        BY <4>1, <4>2, <4>3, SeqEqual
      <4> QED BY <4>4 DEF a, b
    <3> QED BY <3>2, <3>3
  <2>4. Briefly(lock) = <<Take(lock), Drop(lock)>>
    BY <2>1, <2>3, <2>5 DEF Briefly, Within
  <2> QED BY <2>2, <2>4
<1>2. GuardsFor \in Flat
  <2>1. Share("guard_edits") \in Brief /\ Share("guard_edits").op # "drop"
        /\ Share("guard_edits").lock = "guard_edits"
    BY DEF Brief, Share
  <2> QED BY <2>1, PairIsFlat DEF GuardsFor
<1>3. LiveBarOf \in Flat
  BY <1>1 DEF LiveBarOf, Leaves
<1> QED BY <1>1, <1>2, <1>3

(* Under `paper` only leaves are asked for. *)
LEMMA UnderPaper ==
  ASSUME NEW inner \in Flat
  PROVE  Within("paper", inner) \in Nested
<1> DEFINE s == <<Take("paper")>>
           e == <<Drop("paper")>>
           u == (s \o inner) \o e
<1>1. inner \in Seq(Brief) /\ inner \in Seq(Ops) /\ LeavesEnd(inner)
  <2>1. inner \in Nested
    BY FlatIsNested
  <2> QED BY <2>1 DEF Flat, Nested
<1>2. s \in Seq(Ops) /\ e \in Seq(Ops) /\ DOMAIN s = {1} /\ DOMAIN e = {1}
      /\ s[1] = Take("paper") /\ e[1] = Drop("paper")
  BY DEF Ops
<1>3. LeavesEnd(s) /\ LeavesEnd(e)
  BY <1>2, OpsAreApart DEF LeavesEnd, Leaves
<1>4. s \o inner \in Seq(Ops) /\ u \in Seq(Ops)
  BY <1>1, <1>2
<1>5. LeavesEnd(u)
  BY <1>1, <1>2, <1>3, <1>4, LeavesEndJoined
<1>6. PICK n \in Nat : /\ DOMAIN inner = 1..n /\ DOMAIN u = 1..(n + 2)
                       /\ u[1] = Take("paper") /\ u[n + 2] = Drop("paper")
                       /\ \A i \in 1..n : u[i + 1] = inner[i]
  <2>1. Len(inner) \in Nat /\ DOMAIN inner = 1..Len(inner)
    BY <1>1
  <2>2. Len(u) = Len(inner) + 2 /\ DOMAIN u = 1..Len(u)
    BY <1>1
  <2>3. u[1] = Take("paper") /\ u[Len(inner) + 2] = Drop("paper")
    BY <1>1
  <2>4. \A i \in 1..Len(inner) : u[i + 1] = inner[i]
    BY <1>1
  <2> QED BY <2>1, <2>2, <2>3, <2>4
<1> HIDE DEF u, s, e
<1>7. ASSUME NEW i \in 1..(n + 2), 1 < i, i < n + 2 PROVE u[i].lock # "paper"
  <2>1. i - 1 \in 1..n /\ i = (i - 1) + 1
    BY <1>7
  <2>2. inner[i - 1] \in Brief
    BY <1>1, <1>6, <2>1
  <2> QED BY <1>6, <2>1, <2>2, OpsAreApart
<1>8. PapersEnd(u)
  <2> SUFFICES ASSUME NEW i \in 1..(n + 2), u[i] = Take("paper") PROVE PaperEnds(u, i)
    BY <1>6 DEF PapersEnd
  <2>1. u[i].lock = "paper" /\ u[i].op = "take" /\ u[n + 2].op = "drop"
    BY <1>6, OpsAreApart
  <2>2. i = 1
    BY <1>7, <2>1
  <2>3. n + 2 \in 1..(n + 2) /\ 1 < n + 2
    OBVIOUS
  <2> QED BY <1>6, <1>7, <2>2, <2>3 DEF PaperEnds
<1>9. u = Within("paper", inner)
  BY DEF u, s, e, Within
<1> QED BY <1>4, <1>5, <1>8, <1>9 DEF Nested, u


-----------------------------------------------------------------------------
(* A loop over the runs that does the same for each: whatever is closed under
   doing one thing after another. *)
Flattened(f, s, n) == f = [i \in 1..n |-> IF i = 1 THEN s[i] ELSE f[i - 1] \o s[i]]

LEMMA FlattenedExists ==
  ASSUME NEW s, NEW n \in Nat
  PROVE  \E f : Flattened(f, s, n)
<1> DEFINE P(k) == \E f : Flattened(f, s, k)
           T == {k \in Nat : ~P(k)}
<1> SUFFICES ASSUME T # {} PROVE FALSE
  OBVIOUS
<1>1. PICK k \in T : \A j \in T : k <= j
  <2>1. T \subseteq Nat
    OBVIOUS
  <2> HIDE DEF T
  <2> QED BY <2>1, FirstOf
<1>2. k # 0
  <2>1. Flattened([i \in 1..0 |-> << >>], s, 0)
    BY DEF Flattened
  <2> QED BY <1>1, <2>1
<1>3. PICK f : Flattened(f, s, k - 1)
  BY <1>1, <1>2
<1> DEFINE step == IF k = 1 THEN s[k] ELSE f[k - 1] \o s[k]
           g == [i \in 1..k |-> IF i = k THEN step ELSE f[i]]
<1>4. Flattened(g, s, k)
  <2>1. \A i \in 1..(k - 1) : g[i] = f[i]
    BY <1>1, <1>2
  <2>2. \A i \in 1..(k - 1) : f[i] = IF i = 1 THEN s[i] ELSE f[i - 1] \o s[i]
    BY <1>3 DEF Flattened
  <2>3. g = [i \in 1..k |-> g[i]]
    OBVIOUS
  <2>4. \A i \in 1..k : g[i] = IF i = 1 THEN s[i] ELSE g[i - 1] \o s[i]
    <3> SUFFICES ASSUME NEW i \in 1..k
                 PROVE  g[i] = IF i = 1 THEN s[i] ELSE g[i - 1] \o s[i]
      OBVIOUS
    <3>1. CASE i = k
      <4>1. g[i] = step /\ (k # 1 => g[k - 1] = f[k - 1])
        BY <1>1, <1>2, <2>1, <3>1
      <4> HIDE DEF g
      <4> QED BY <3>1, <4>1
    <3>2. CASE i # k
      <4>1. i \in 1..(k - 1) /\ (i # 1 => i - 1 \in 1..(k - 1))
        BY <1>1, <3>2
      <4> HIDE DEF g
      <4> QED BY <2>1, <2>2, <4>1
    <3> QED BY <3>1, <3>2
  <2> HIDE DEF g
  <2> QED BY <2>3, <2>4 DEF Flattened
<1> QED BY <1>1, <1>4

LEMMA ForEachRunStays ==
  ASSUME NEW S, << >> \in S, \A s, t \in S : s \o t \in S, NEW inner \in S
  PROVE  ForEachRun(inner) \in S
<1> DEFINE s == [r \in 1..Runs |-> inner]
           f == CHOOSE f : Flattened(f, s, Runs)
<1>1. Runs \in Nat
  BY DeskLocksAssumption DEF DeskLocksAssumption
<1>2. Len(s) = Runs
  BY <1>1
<1>3. Flattened(f, s, Runs)
  BY <1>1, FlattenedExists
<1>4. ForEachRun(inner) = IF Runs = 0 THEN s ELSE f[Runs]
  <2> HIDE DEF s
  <2>1. FlattenSeq(s) = IF Len(s) = 0 THEN s ELSE
          (CHOOSE g : g = [i \in 1..Len(s) |-> IF i = 1 THEN s[i] ELSE g[i - 1] \o s[i]])[Len(s)]
    BY DEF FlattenSeq
  <2> QED BY <1>2, <2>1 DEF ForEachRun, Flattened, s
<1> HIDE DEF f
<1>5. CASE Runs = 0
  <2>1. s = << >>
    BY <1>5
  <2> QED BY <1>4, <1>5, <2>1
<1>6. CASE Runs # 0
  <2>1. \A i \in 1..Runs : f[i] = IF i = 1 THEN inner ELSE f[i - 1] \o inner
    BY <1>3 DEF Flattened
  <2> DEFINE T == {k \in 1..Runs : f[k] \notin S}
  <2>2. T = {}
    <3> SUFFICES ASSUME T # {} PROVE FALSE
      OBVIOUS
    <3>1. PICK k \in T : \A j \in T : k <= j
      <4>1. T \subseteq Nat
        OBVIOUS
      <4> HIDE DEF T
      <4> QED BY <4>1, FirstOf
    <3>2. k # 1
      BY <2>1, <3>1
    <3>3. k - 1 \in 1..Runs /\ k - 1 \notin T
      BY <1>1, <3>1, <3>2
    <3>4. f[k] = f[k - 1] \o inner /\ f[k - 1] \in S
      BY <2>1, <3>1, <3>2, <3>3
    <3> QED BY <3>1, <3>4
  <2>3. Runs \in 1..Runs
    BY <1>1, <1>6
  <2> QED BY <1>4, <1>6, <2>2, <2>3
<1> QED BY <1>5, <1>6

LEMMA NothingIsFlat == << >> \in Flat
BY DEF Flat, LeavesEnd

(* What every handler but act does. *)
LEMMA HandlersNest ==
  ASSUME NEW handler \in InOrderHandlers
  PROVE  Program(handler) \in Nested
<1>1. /\ GuardsFor \in Flat /\ LiveBarOf \in Flat /\ << >> \in Flat
      /\ Briefly("live_bars") \in Flat /\ Briefly("m1") \in Flat
      /\ Briefly("guard_edits") \in Flat
  BY BrieflyIsFlat, NothingIsFlat DEF Leaves
<1>2. GuardsFor \o LiveBarOf \in Flat
  BY <1>1, FlatJoins
<1>3. ForEachRun(GuardsFor) \in Flat /\ ForEachRun(GuardsFor \o LiveBarOf) \in Flat
  BY <1>1, <1>2, FlatJoins, ForEachRunStays
<1>4. /\ Within("paper", LiveBarOf) \in Nested /\ Within("paper", GuardsFor) \in Nested
      /\ Within("paper", ForEachRun(GuardsFor)) \in Nested
      /\ Status \in Nested /\ Within("paper", GuardsFor \o LiveBarOf) \in Nested
      /\ Briefly("paper") \in Nested
  BY <1>1, <1>2, <1>3, UnderPaper DEF Status, Briefly
<1>5. /\ GuardsFor \in Nested /\ Briefly("live_bars") \in Nested /\ Briefly("m1") \in Nested
      /\ Briefly("guard_edits") \in Nested
  BY <1>1, FlatIsNested
<1>6. Tick \in Nested
  BY <1>4, <1>5, NestedJoins DEF Tick
<1>7. GuardsGet \in Nested
  BY <1>4, <1>5, NestedJoins DEF GuardsGet
<1>8. GuardsSet \in Nested
  BY <1>4, <1>5, <1>7, NestedJoins DEF GuardsSet
<1>9. GuardsFor \o Within("paper", LiveBarOf) \in Nested
  BY <1>4, <1>5, NestedJoins
<1> QED BY <1>4, <1>5, <1>6, <1>7, <1>8, <1>9 DEF Program, InOrderHandlers


-----------------------------------------------------------------------------
(* What a worker holds and what it has still to do: a leaf it holds is dropped
   next, and `paper` is dropped before it is asked for again. *)
Fits(h, s) ==
  /\ s \in Nested
  /\ h \subseteq {x \in Ops : x.op # "drop"}
  /\ \A x \in h : x.lock \in Leaves => s # << >> /\ s[1] = Drop(x.lock)
  /\ \A x \in h : x.lock = "paper" => PaperEnds(s, 0)

AllFit ==
  /\ held = [w \in Workers |-> held[w]] /\ steps = [w \in Workers |-> steps[w]]
  /\ \A w \in Workers : Fits(held[w], steps[w])

LEMMA TailAt ==
  ASSUME NEW s \in Seq(Ops), s # << >>
  PROVE  \E n \in Nat \ {0} :
           /\ DOMAIN s = 1..n /\ DOMAIN Tail(s) = 1..(n - 1) /\ Tail(s) \in Seq(Ops)
           /\ \A i \in 1..(n - 1) : Tail(s)[i] = s[i + 1]
<1>1. Len(s) \in Nat \ {0} /\ DOMAIN s = 1..Len(s)
  OBVIOUS
<1>2. Tail(s) \in Seq(Ops) /\ Len(Tail(s)) = Len(s) - 1
      /\ \A i \in 1..(Len(s) - 1) : Tail(s)[i] = s[i + 1]
  BY HeadTailProperties
<1>3. DOMAIN Tail(s) = 1..Len(Tail(s))
  BY <1>2
<1> QED BY <1>1, <1>2, <1>3

(* The step after: what is said of `paper` after i + 1 is said after i. *)
LEMMA TailNests ==
  ASSUME NEW s \in Nested, s # << >>
  PROVE  /\ Tail(s) \in Nested
         /\ s[1] \in Ops
         /\ s[1].lock \in Leaves /\ s[1].op # "drop"
              => Tail(s) # << >> /\ Tail(s)[1] = Drop(s[1].lock)
         /\ s[1] = Take("paper") => PaperEnds(Tail(s), 0)
         /\ PaperEnds(s, 0) /\ s[1] # Drop("paper")
              => PaperEnds(Tail(s), 0) /\ s[1].lock # "paper"
<1>1. s \in Seq(Ops) /\ LeavesEnd(s) /\ PapersEnd(s)
  BY DEF Nested
<1> DEFINE t == Tail(s)
<1>2. PICK n \in Nat \ {0} :
           /\ DOMAIN s = 1..n /\ DOMAIN t = 1..(n - 1) /\ t \in Seq(Ops)
           /\ \A i \in 1..(n - 1) : t[i] = s[i + 1]
  BY <1>1, TailAt
<1> HIDE DEF t
<1>3. \A i \in 1..(n - 1) : i + 1 \in 1..n
  OBVIOUS
<1>4. 1 \in 1..n /\ s[1] \in Ops
  BY <1>1, <1>2
<1>5. LeavesEnd(t)
  <2> SUFFICES ASSUME NEW i \in 1..(n - 1), t[i].lock \in Leaves, t[i].op # "drop"
               PROVE  i + 1 \in 1..(n - 1) /\ t[i + 1] = Drop(t[i].lock)
    BY <1>2 DEF LeavesEnd
  <2>1. t[i] = s[i + 1] /\ i + 1 \in 1..n
    BY <1>2
  <2>2. (i + 1) + 1 \in 1..n /\ s[(i + 1) + 1] = Drop(s[i + 1].lock)
    BY <1>1, <1>2, <2>1 DEF LeavesEnd
  <2>3. i + 1 \in 1..(n - 1)
    BY <2>2
  <2> QED BY <1>2, <2>1, <2>2, <2>3
<1>6. ASSUME NEW i \in 0..(n - 1), PaperEnds(s, i + 1)
      PROVE  PaperEnds(t, i)
  <2>1. PICK j \in 1..n : /\ i + 1 < j /\ s[j] = Drop("paper")
                          /\ \A k \in 1..n : i + 1 < k /\ k < j => s[k].lock # "paper"
    BY <1>2, <1>6 DEF PaperEnds
  <2>2. j - 1 \in 1..(n - 1) /\ i < j - 1 /\ (j - 1) + 1 = j
    BY <2>1
  <2>3. t[j - 1] = Drop("paper")
    BY <1>2, <2>1, <2>2
  <2>4. ASSUME NEW k \in 1..(n - 1), i < k, k < j - 1 PROVE t[k].lock # "paper"
    <3>1. k + 1 \in 1..n /\ i + 1 < k + 1 /\ k + 1 < j
      BY <2>4
    <3> QED BY <1>2, <2>1, <3>1
  <2> QED BY <1>2, <2>2, <2>3, <2>4 DEF PaperEnds
<1>7. PapersEnd(t)
  <2> SUFFICES ASSUME NEW i \in 1..(n - 1), t[i] = Take("paper") PROVE PaperEnds(t, i)
    BY <1>2 DEF PapersEnd
  <2>1. t[i] = s[i + 1] /\ i + 1 \in 1..n /\ i \in 0..(n - 1)
    BY <1>2
  <2>2. PaperEnds(s, i + 1)
    BY <1>1, <1>2, <2>1 DEF PapersEnd
  <2> QED BY <1>6, <2>1, <2>2
<1>8. ASSUME s[1].lock \in Leaves, s[1].op # "drop"
      PROVE  t # << >> /\ t[1] = Drop(s[1].lock)
  <2>1. 1 + 1 \in 1..n /\ s[1 + 1] = Drop(s[1].lock)
    BY <1>1, <1>2, <1>4, <1>8 DEF LeavesEnd
  <2>2. 1 \in 1..(n - 1)
    BY <2>1
  <2>3. t[1] = s[1 + 1] /\ t # << >>
    BY <1>2, <2>2
  <2> QED BY <2>1, <2>3
<1>9. s[1] = Take("paper") => PaperEnds(t, 0)
  <2> SUFFICES ASSUME s[1] = Take("paper") PROVE PaperEnds(t, 0)
    OBVIOUS
  <2>1. PaperEnds(s, 1)
    BY <1>1, <1>2, <1>4 DEF PapersEnd
  <2>2. 0 \in 0..(n - 1) /\ 0 + 1 = 1
    OBVIOUS
  <2> QED BY <1>6, <2>1, <2>2
<1>10. ASSUME PaperEnds(s, 0), s[1] # Drop("paper")
       PROVE  PaperEnds(t, 0) /\ s[1].lock # "paper"
  <2>1. PICK j \in 1..n : /\ 0 < j /\ s[j] = Drop("paper")
                          /\ \A k \in 1..n : 0 < k /\ k < j => s[k].lock # "paper"
    BY <1>2, <1>10 DEF PaperEnds
  <2>2. j # 1 /\ 1 < j
    BY <1>10, <2>1
  <2>3. s[1].lock # "paper"
    BY <1>4, <2>1, <2>2
  <2>4. PaperEnds(s, 0 + 1)
    <3>1. 0 + 1 = 1 /\ \A k \in 1..n : 1 < k => 0 < k
      OBVIOUS
    <3>2. \A k \in 1..n : 1 < k /\ k < j => s[k].lock # "paper"
      BY <2>1, <3>1
    <3>3. PaperEnds(s, 1)
      <4>1. j \in DOMAIN s /\ 1 < j /\ s[j] = Drop("paper")
        BY <1>2, <2>1, <2>2
      <4>2. \A k \in DOMAIN s : 1 < k /\ k < j => s[k].lock # "paper"
        BY <1>2, <3>2
      <4> QED BY <4>1, <4>2 DEF PaperEnds
    <3> QED BY <3>1, <3>3
  <2>5. 0 \in 0..(n - 1)
    OBVIOUS
  <2> QED BY <1>6, <2>3, <2>4, <2>5
<1> QED BY <1>2, <1>4, <1>5, <1>7, <1>8, <1>9, <1>10 DEF t, Nested

LEMMA LockingFits ==
  ASSUME NEW h, NEW s, Fits(h, s), s # << >>, s[1].op # "drop"
  PROVE  Fits(h \cup {s[1]}, Tail(s))
<1>1. s \in Nested
  BY DEF Fits
<1>2. \A x \in h : x.lock \notin Leaves
  BY OpsAreApart DEF Fits
<1>3. s[1] \in Ops /\ Tail(s) \in Nested
  BY <1>1, TailNests
<1>4. s[1].op = "take" /\ s[1].lock = "paper" => s[1] = Take("paper")
  BY <1>3, OpsAreApart
<1>5. s[1].lock = "paper" => s[1].op = "take"
  BY <1>3, OpsAreApart
<1>6. s[1] # Drop("paper")
  BY OpsAreApart
<1>7. \A x \in h : x.lock = "paper" => PaperEnds(Tail(s), 0)
  <2>1. \A x \in h : x.lock = "paper" => PaperEnds(s, 0)
    BY DEF Fits
  <2>2. PaperEnds(s, 0) => PaperEnds(Tail(s), 0)
    BY <1>1, <1>6, TailNests
  <2> QED BY <2>1, <2>2
<1>8. s[1].lock = "paper" => PaperEnds(Tail(s), 0)
  BY <1>1, <1>4, <1>5, TailNests
<1>9. s[1].lock \in Leaves => Tail(s) # << >> /\ Tail(s)[1] = Drop(s[1].lock)
  BY <1>1, TailNests
<1>10. h \cup {s[1]} \subseteq {x \in Ops : x.op # "drop"}
  BY <1>3 DEF Fits
<1> QED BY <1>2, <1>3, <1>7, <1>8, <1>9, <1>10 DEF Fits

LEMMA UnlockingFits ==
  ASSUME NEW h, NEW s, Fits(h, s), s # << >>, s[1].op = "drop"
  PROVE  Fits({x \in h : x.lock # s[1].lock}, Tail(s))
<1> DEFINE g == {x \in h : x.lock # s[1].lock}
<1>1. s \in Nested
  BY DEF Fits
<1>2. \A x \in g : x.lock \notin Leaves
  BY OpsAreApart DEF Fits
<1>3. s[1] \in Ops /\ Tail(s) \in Nested
  BY <1>1, TailNests
<1>4. \A x \in g : x.lock = "paper" => s[1] # Drop("paper") /\ PaperEnds(s, 0)
  BY OpsAreApart DEF Fits
<1>5. \A x \in g : x.lock = "paper" => PaperEnds(Tail(s), 0)
  BY <1>1, <1>4, TailNests
<1>6. g \subseteq {x \in Ops : x.op # "drop"}
  BY DEF Fits
<1> HIDE DEF g
<1>7. Fits(g, Tail(s))
  BY <1>2, <1>3, <1>5, <1>6 DEF Fits
<1> QED BY <1>7 DEF g

LEMMA BeginsFit == Init => AllFit
<1> SUFFICES ASSUME Init PROVE AllFit
  OBVIOUS
<1>1. << >> \in Nested
  BY NothingIsFlat, FlatIsNested
<1> QED BY <1>1 DEF Init, AllFit, Fits

LEMMA StepsFit ==
  ASSUME Handlers \subseteq InOrderHandlers, AllFit, [Next]_vars
  PROVE  AllFit'
<1>1. CASE UNCHANGED vars
  BY <1>1 DEF vars, AllFit
<1>2. ASSUME NEW w \in Workers, NEW h, NEW s, Fits(h, s),
             held' = [held EXCEPT ![w] = h], steps' = [steps EXCEPT ![w] = s]
      PROVE  AllFit'
  <2>1. \A v \in Workers : /\ held'[v] = (IF v = w THEN h ELSE held[v])
                            /\ steps'[v] = (IF v = w THEN s ELSE steps[v])
    BY <1>2 DEF AllFit
  <2>2. held' = [v \in Workers |-> held'[v]] /\ steps' = [v \in Workers |-> steps'[v]]
    BY <1>2 DEF AllFit
  <2>3. \A v \in Workers : Fits(held'[v], steps'[v])
    BY <1>2, <2>1 DEF AllFit
  <2> QED BY <2>2, <2>3 DEF AllFit
<1>3. ASSUME NEW w \in Workers, NEW handler \in Handlers, Called(w, handler)
      PROVE  AllFit'
  <2>1. Program(handler) \in Nested
    BY <1>3, HandlersNest
  <2>2. Fits(held[w], steps[w]) /\ steps[w] = << >>
    BY <1>3 DEF AllFit, Called, Idle
  <2>3. held[w] = {}
    <3>1. \A x \in held[w] : x.lock \notin Leaves /\ x.lock # "paper"
      BY <2>2 DEF Fits, PaperEnds
    <3>2. \A x \in held[w] : x.lock \in Leaves \cup {"paper"}
      BY <2>2, OpsAreApart DEF Fits
    <3> QED BY <3>1, <3>2
  <2>4. Fits({}, Program(handler))
    BY <2>1 DEF Fits
  <2>5. held' = [held EXCEPT ![w] = {}] /\ steps' = [steps EXCEPT ![w] = Program(handler)]
    BY <1>3, <2>3 DEF Called, AllFit
  <2> QED BY <1>2, <2>4, <2>5
<1>4. ASSUME NEW w \in Workers, Locks(w) PROVE AllFit'
  <2>1. steps[w] # << >> /\ steps[w][1].op # "drop"
    BY <1>4 DEF Locks, Asks, Idle
  <2>2. Fits(held[w] \cup {steps[w][1]}, Tail(steps[w]))
    BY <2>1, LockingFits DEF AllFit
  <2> QED BY <1>2, <1>4, <2>2 DEF Locks
<1>5. ASSUME NEW w \in Workers, Unlocks(w) PROVE AllFit'
  <2>1. steps[w] # << >> /\ steps[w][1].op = "drop"
    BY <1>5 DEF Unlocks, Asks, Idle
  <2> DEFINE g == {x \in held[w] : x.lock # steps[w][1].lock}
  <2>2. Fits(g, Tail(steps[w]))
    BY <2>1, UnlockingFits DEF AllFit
  <2>3. held' = [held EXCEPT ![w] = g] /\ steps' = [steps EXCEPT ![w] = Tail(steps[w])]
    BY <1>5 DEF Unlocks, Wants
  <2> HIDE DEF g
  <2> QED BY <1>2, <2>2, <2>3
<1> QED BY <1>1, <1>3, <1>4, <1>5 DEF Next

(* Who waits for nobody among the stuck: a worker whose lock none of them holds,
   or the writer that is waiting for the same lock. *)
LEMMA FreeLockFrees ==
  ASSUME NEW stuck \in SUBSET Workers, NEW w \in stuck, Held(Wants(w)) \cap stuck = {}
  PROVE  \E v \in stuck : Blockers(v) \cap stuck = {}
<1> DEFINE waiting == {v \in Workers : Asks(v, "take") /\ Wants(v) = Wants(w) /\ Held(Wants(w)) # {}}
<1>1. CASE Asks(w, "take")
  BY <1>1 DEF Blockers
<1>2. CASE ~Asks(w, "take") /\ Asks(w, "share")
  <2>1. CASE waiting \cap stuck = {}
    <3>1. Writing(Wants(w)) \subseteq Held(Wants(w))
      BY DEF Writing, Held, Take
    <3> QED BY <1>2, <2>1, <3>1 DEF Blockers
  <2>2. CASE waiting \cap stuck # {}
    <3>1. PICK v \in stuck : Asks(v, "take") /\ Wants(v) = Wants(w)
      BY <2>2
    <3> QED BY <3>1 DEF Blockers
  <2> QED BY <2>1, <2>2
<1>3. CASE ~Asks(w, "take") /\ ~Asks(w, "share")
  BY <1>3 DEF Blockers
<1> QED BY <1>1, <1>2, <1>3

LEMMA FitsAreFree == AllFit => NoneWaitForEachOther
<1> SUFFICES ASSUME AllFit, NEW stuck \in SUBSET Workers, stuck # {}
             PROVE  \E w \in stuck : Blockers(w) \cap stuck = {}
  BY DEF NoneWaitForEachOther
<1>1. \A w \in stuck : Fits(held[w], steps[w])
  BY DEF AllFit
<1> DEFINE Holds(w, locks) == \E x \in held[w] : x.lock \in locks
<1>2. ASSUME NEW w \in stuck, Holds(w, Leaves)
      PROVE  Blockers(w) = {}
  <2>1. PICK x \in held[w] : x.lock \in Leaves
    BY <1>2
  <2>2. steps[w][1] = Drop(x.lock)
    BY <1>1, <2>1 DEF Fits
  <2> QED BY <2>2, OpsAreApart DEF Blockers, Asks
<1>3. ASSUME NEW w \in stuck, \A v \in stuck : ~Holds(v, Leaves), Holds(w, {"paper"})
      PROVE  \E v \in stuck : Blockers(v) \cap stuck = {}
  <2>1. PaperEnds(steps[w], 0)
    BY <1>1, <1>3 DEF Fits
  <2>2. steps[w] \in Nested /\ steps[w] # << >>
    BY <1>1, <2>1 DEF Fits, PaperEnds
  <2>3. CASE steps[w][1] = Drop("paper")
    BY <2>3, OpsAreApart DEF Blockers, Asks
  <2>4. CASE steps[w][1] # Drop("paper")
    <3>1. steps[w][1] \in Ops /\ steps[w][1].lock # "paper"
      BY <2>1, <2>2, <2>4, TailNests
    <3>2. Wants(w) \in Leaves
      BY <3>1, OpsAreApart DEF Wants
    <3>3. Held(Wants(w)) \cap stuck = {}
      BY <1>3, <3>2 DEF Held
    <3> QED BY <3>3, FreeLockFrees
  <2> QED BY <2>3, <2>4
<1>4. ASSUME \A v \in stuck : ~Holds(v, Leaves) /\ ~Holds(v, {"paper"})
      PROVE  \E v \in stuck : Blockers(v) \cap stuck = {}
  <2>1. PICK w \in stuck : TRUE
    OBVIOUS
  <2>2. \A v \in stuck : held[v] = {}
    <3>1. \A v \in stuck : \A x \in held[v] : x.lock \in Leaves \cup {"paper"}
      BY <1>1, OpsAreApart DEF Fits
    <3> QED BY <1>4, <3>1
  <2>3. Held(Wants(w)) \cap stuck = {}
    BY <2>2 DEF Held
  <2> QED BY <2>3, FreeLockFrees
<1> QED BY <1>2, <1>3, <1>4

(* However many workers and runs there are, and whichever routes but act are
   called together, some worker of any group can go on: the quote is read
   before `paper` and never under it, and `guard_edits` is never held across
   another lock (state.rs, guards_for; paper.rs, the handlers). *)
THEOREM DeskNeverLocksUp ==
  ASSUME Handlers \subseteq InOrderHandlers
  PROVE  Spec => []NoneWaitForEachOther
<1>1. Init => AllFit
  BY BeginsFit
<1>2. AllFit /\ [Next]_vars => AllFit'
  BY StepsFit
<1> QED BY <1>1, <1>2, FitsAreFree, PTL DEF Spec
=============================================================================
