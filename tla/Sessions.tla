------------------------------ MODULE Sessions ------------------------------
(***************************************************************************)
(* The authenticated listener (fd-api/src/auth.rs): the verifier stored in *)
(* config/local.toml, the sign-ins that check it one at a time outside the *)
(* lock, the lockout after wrong answers, and the sessions, which live in  *)
(* memory for an absolute time.                                            *)
(*                                                                         *)
(* Time passes in an action of its own.  A password is the number of the   *)
(* --set-password that stored it; a token is the number of its login.      *)
(***************************************************************************)
EXTENDS Integers, Sequences, SequencesExt

CONSTANTS
  Browsers,       \* those who sign in, at the same time or not
  FreeAttempts, LockoutBase, LockoutMax, Ttl,
  Absent,         \* no such value
  Files,          \* the local.toml files found at the start
  MaxTime, MaxLogins, MaxPasswords   \* bounds of the instance

VARIABLES
  clock,
  file,      \* config/local.toml, a sequence of lines
  stored,    \* history: how many passwords were set
  listener,  \* the password the second listener checks, or Absent: not bound
  live,      \* [sessions, failures, lockedUntil, verifying]
  checking,  \* checking[b]: the answer PBKDF2 will give and since when, or Absent
  logins,    \* history: when each token was made, and whether it was logged out
  wrongAt    \* history: when the last wrong answer was counted

sessionVars == <<clock, file, stored, listener, live, checking, logins, wrongAt>>

-----------------------------------------------------------------------------
(* config/local.toml, line by line. *)
Header(name) == [header |-> name, key |-> Absent, value |-> Absent]
Assignment(key, value) == [header |-> Absent, key |-> key, value |-> value]
Blank == Assignment(Absent, Absent)

IsHeader(line) == line.header # Absent
Pairs(password) ==
  <<Assignment("pbkdf2_iterations", password), Assignment("salt", password),
    Assignment("hash", password)>>
PairKeys == {"pbkdf2_iterations", "salt", "hash"}

(* The section a line stands in: the last header before it. *)
SectionOf(text, i) ==
  LET before == {j \in 1..i : IsHeader(text[j])}
  IN  IF before = {} THEN Absent
      ELSE text[CHOOSE j \in before : \A k \in before : k <= j].header

InAuth(text, i) == ~IsHeader(text[i]) /\ SectionOf(text, i) = "auth"
Values(text, key) == {text[i].value : i \in {j \in DOMAIN text :
                                             InAuth(text, j) /\ text[j].key = key}}

(* A key given twice, or a section begun twice, is no TOML. *)
Parses(text) ==
  /\ \A i, j \in DOMAIN text : i # j /\ IsHeader(text[i]) => text[i] # text[j]
  /\ \A i, j \in DOMAIN text :
       i # j /\ text[i].key # Absent /\ text[i].key = text[j].key =>
         SectionOf(text, i) # SectionOf(text, j)

(* StoredPassword::from_toml: an incomplete section is an error, never "no
   password wanted".  Fields of different passwords verify nothing. *)
HasSection(text) == \E i \in DOMAIN text : text[i] = Header("auth")
Complete(text) == \A key \in PairKeys : Values(text, key) # {}
LoadedPassword(text) ==
  IF Parses(text) /\ HasSection(text) /\ Complete(text)
  THEN CHOOSE v \in Values(text, "hash") : TRUE
  ELSE Absent

(* set_section_keys: a key that is there is replaced where it stands, one that
   is not is added at the end of the section, and so is the section itself. *)
IfMissing(text, pair) == IF Values(text, pair.key) = {} THEN <<pair>> ELSE << >>
Missing(text, pairs) ==
  IfMissing(text, pairs[1]) \o IfMissing(text, pairs[2]) \o IfMissing(text, pairs[3])
BugReplaced(text, pairs) ==
  [i \in DOMAIN text |->
     IF \E p \in Range(pairs) : p.key = text[i].key
     THEN CHOOSE p \in Range(pairs) : p.key = text[i].key ELSE text[i]]
Replaced(text, pairs) ==
  [i \in DOMAIN text |->
     IF InAuth(text, i) /\ \E p \in Range(pairs) : p.key = text[i].key
     THEN CHOOSE p \in Range(pairs) : p.key = text[i].key ELSE text[i]]
EndOfAuth(text) ==
  CHOOSE i \in DOMAIN text :
    /\ SectionOf(text, i) = "auth"
    /\ i = Len(text) \/ SectionOf(text, i + 1) # "auth"
SetSectionKeys(text, pairs) ==
  IF HasSection(text)
  THEN LET end == EndOfAuth(text)
           kept == Replaced(text, pairs)
       IN  SubSeq(kept, 1, end) \o Missing(text, pairs) \o SubSeq(kept, end + 1, Len(text))
  ELSE text \o (IF text = << >> \/ Last(text) = Blank THEN << >> ELSE <<Blank>>)
            \o <<Header("auth")>> \o pairs

(* switches and tunnel: the listener is opened when it is asked for and there
   is a password, and never otherwise. *)
Enabled(text) == Parses(text) /\ TRUE \in Values(text, "enabled")
Tunnel(text, asked) ==
  IF asked \/ Enabled(text) THEN LoadedPassword(text) ELSE Absent

-----------------------------------------------------------------------------
NoOne == [sessions |-> {}, failures |-> 0, lockedUntil |-> 0, verifying |-> FALSE]

SessionsInit ==
  /\ clock = 1 /\ file \in Files /\ stored = 0 /\ wrongAt = 0
  /\ listener = Absent /\ live = NoOne
  /\ checking = [b \in Browsers |-> Absent]
  /\ logins = << >>

(* Auth::backoff, 0 for no wait. *)
Backoff(failures) ==
  IF failures <= FreeAttempts THEN 0
  ELSE LET doubled == LockoutBase * 2 ^ (failures - FreeAttempts - 1)
       IN  IF doubled < LockoutMax THEN doubled ELSE LockoutMax

Unexpired(sessions, at) == {s \in sessions : s.expires > at}

(* Auth::login up to PBKDF2: refused while locked out or while another answer
   is being checked, and neither counts as a failure. *)
BugLogin(b, right) ==
  /\ listener # Absent /\ checking[b] = Absent
  /\ live.lockedUntil <= clock /\ Len(logins) < MaxLogins
  /\ live' = [live EXCEPT !.verifying = TRUE]
  /\ checking' = [checking EXCEPT ![b] = [right |-> right, since |-> clock]]
  /\ UNCHANGED <<clock, file, stored, listener, logins, wrongAt>>
Login(b, right) ==
  /\ listener # Absent /\ checking[b] = Absent
  /\ live.lockedUntil <= clock /\ ~live.verifying /\ Len(logins) < MaxLogins
  /\ live' = [live EXCEPT !.verifying = TRUE]
  /\ checking' = [checking EXCEPT ![b] = [right |-> right, since |-> clock]]
  /\ UNCHANGED <<clock, file, stored, listener, logins, wrongAt>>

(* The rest of it, after PBKDF2 and back under the lock. *)
Wrong(b) ==
  LET failures == live.failures + 1
      wait == Backoff(failures)
  IN  /\ checking[b] # Absent /\ ~checking[b].right
      /\ live' = [live EXCEPT
           !.verifying = FALSE, !.failures = failures,
           !.lockedUntil = IF wait > 0 THEN clock + wait ELSE @]
      /\ wrongAt' = clock
      /\ checking' = [checking EXCEPT ![b] = Absent]
      /\ UNCHANGED <<clock, file, stored, listener, logins>>

Right(b) ==
  LET token == Len(logins) + 1
  IN  /\ checking[b] # Absent /\ checking[b].right
      /\ live' = [sessions |-> Unexpired(live.sessions, checking[b].since)
                                 \cup {[token |-> token, expires |-> clock + Ttl]},
                  failures |-> 0, lockedUntil |-> 0, verifying |-> FALSE]
      /\ logins' = Append(logins, [at |-> clock, out |-> FALSE])
      /\ checking' = [checking EXCEPT ![b] = Absent]
      /\ UNCHANGED <<clock, file, stored, listener, wrongAt>>

(* Auth::is_authenticated, asked by guard for every path that is not public. *)
Admits(token) == \E s \in Unexpired(live.sessions, clock) : s.token = token
Request(token) ==
  /\ listener # Absent /\ token \in DOMAIN logins
  /\ live' = [live EXCEPT !.sessions = Unexpired(@, clock)]
  /\ UNCHANGED <<clock, file, stored, listener, checking, logins, wrongAt>>

Logout(token) ==
  /\ listener # Absent /\ token \in DOMAIN logins
  /\ live' = [live EXCEPT !.sessions = {s \in Unexpired(@, clock) : s.token # token}]
  /\ logins' = [logins EXCEPT ![token].out = TRUE]
  /\ UNCHANGED <<clock, file, stored, listener, checking, wrongAt>>

(* fd-api --set-password, a process of its own: the running listener keeps the
   password it loaded. *)
SetPassword ==
  /\ stored < MaxPasswords
  /\ stored' = stored + 1
  /\ file' = SetSectionKeys(file, Pairs(stored + 1))
  /\ UNCHANGED <<clock, listener, live, checking, logins, wrongAt>>

Restart(asked) ==
  /\ listener' = Tunnel(file, asked)
  /\ live' = NoOne
  /\ checking' = [b \in Browsers |-> Absent]
  /\ logins' = [t \in DOMAIN logins |-> [logins[t] EXCEPT !.out = TRUE]]
  /\ wrongAt' = 0
  /\ UNCHANGED <<clock, file, stored>>

TimePasses ==
  /\ clock < MaxTime
  /\ clock' = clock + 1
  /\ UNCHANGED <<file, stored, listener, live, checking, logins, wrongAt>>

SessionsNext ==
  \/ \E b \in Browsers :
       \/ \E right \in BOOLEAN : Login(b, right)
       \/ Wrong(b) \/ Right(b)
  \/ \E token \in DOMAIN logins : Request(token) \/ Logout(token)
  \/ SetPassword
  \/ \E asked \in BOOLEAN : Restart(asked)
  \/ TimePasses

SessionsSpec == SessionsInit /\ [][SessionsNext]_sessionVars

-----------------------------------------------------------------------------
(* The lockout prices every wrong answer, although it is armed only when an
   answer was checked and the check is made without the lock: between two
   answers that are counted lies the whole wait the first one cost (Live::
   verifying, Auth::backoff). *)
WrongAnswersWait ==
  [][live'.failures > live.failures /\ live.failures > 0 =>
       clock >= wrongAt + Backoff(live.failures)]_sessionVars

(* "Write the verifier into config/local.toml, leaving every other line
   byte-identical" (save), and what was written is what the next start loads,
   for every file that is TOML. *)
Others(text) ==
  LET at == {i \in DOMAIN text : ~(InAuth(text, i) /\ text[i].key \in PairKeys)
                                 /\ text[i] \notin {Blank, Header("auth")}}
  IN  {<<SectionOf(text, i), text[i]>> : i \in at}
PasswordWritten ==
  [][file' # file /\ Parses(file) =>
       /\ LoadedPassword(file') = stored'
       /\ Others(file') = Others(file)]_sessionVars
=============================================================================
