------------------------------- MODULE PodBoot -------------------------------
(***************************************************************************)
(* What every pod does before its Plex runs, on state all pods share:      *)
(* pkg/plex/bootstrap (Run, InitSchema, ensurePlexDirs), pkg/plex/prefs    *)
(* (CreateIfAbsent, Apply, Update under the file's lock), and              *)
(* pkg/plex/servertoken with pkg/plex/claim; and the lease holder's Keeper.*)
(*                                                                         *)
(* Preferences.xml is the server's identity, the one derived from it, the  *)
(* settings the manager enforces and the account; the Secret is an account *)
(* and the claim code it records as spent.  An account is a number: its    *)
(* token, and its username and email, which Plex writes after the token.   *)
(***************************************************************************)
EXTENDS Naturals

CONSTANTS
  BootPods,      \* the pods, on one shared state directory
  ClaimCode,     \* the configured claim code, a number; 0 is none
  MaxSignIns,    \* sign-ins through Plex Web
  MaxCrashes,    \* manager processes that die
  MaxRefusals    \* calls to the Secret or plex.tv that fail

VARIABLES
  db,        \* the library's schema: [dump, seeded]; dump is none, part, whole
  prefs,     \* Preferences.xml: [id, derived, forced, token, user]; id 0: no file
  secret,    \* the Secret: [token, user, claim]
  flock,     \* the pod or the Keeper that holds the preferences' lock
  boot,      \* per pod: where its start is
  mem,       \* per pod: what its step under the lock has read
  ran,       \* per pod: the settings its running Plex read
  keep,      \* the holder's Sync: [at, file, stored]
  spent,     \* plex.tv has exchanged the code
  budget,    \* [signins, crashes, refusals] still to come
  accounts   \* the accounts so far

bootVars == <<db, prefs, secret, flock, boot, mem, ran, keep, spent, budget, accounts>>

NoPrefs == [id |-> 0, derived |-> 0, forced |-> FALSE, token |-> 0, user |-> 0]
Empty == [token |-> 0, user |-> 0, claim |-> 0]
NoMem == [file |-> NoPrefs, store |-> FALSE, stored |-> Empty, token |-> 0]
AtRest == [at |-> "rest", token |-> 0, user |-> 0, stored |-> Empty]
Nobody == "nobody"

ASSUME PodsAssumption == Nobody \notin BootPods

BootInit ==
  /\ db = [dump |-> "none", seeded |-> FALSE]
  /\ prefs = NoPrefs /\ secret = Empty /\ flock = Nobody
  /\ boot = [p \in BootPods |-> "off"]
  /\ mem = [p \in BootPods |-> NoMem] /\ ran = mem
  /\ keep = AtRest /\ spent = FALSE /\ accounts = 0
  /\ budget = [signins |-> MaxSignIns, crashes |-> MaxCrashes, refusals |-> MaxRefusals]

Goes(p, from, to) == boot[p] = from /\ boot' = [boot EXCEPT ![p] = to]
Refused == /\ budget.refusals > 0
           /\ budget' = [budget EXCEPT !.refusals = @ - 1]

-----------------------------------------------------------------------------
(* The library's schema, without a lock: a populated one is left alone.    *)

InitSchema(p) ==
  /\ IF db.dump = "none" THEN Goes(p, "off", "load") ELSE Goes(p, "off", "dirs")
  /\ UNCHANGED <<db, prefs, secret, flock, mem, ran, keep, spent, budget, accounts>>

(* RunFile: each statement is a transaction of its own, and one that fails *)
(* is skipped; a table another pod's load made is such a failure.          *)
RunFile(p) ==
  /\ \/ /\ boot[p] = "load" /\ db.dump = "none"
        /\ db' = [db EXCEPT !.dump = "part"] /\ UNCHANGED boot
     \/ /\ Goes(p, "load", "seed") /\ db.dump # "none"
        /\ db' = [db EXCEPT !.dump = "whole"]
     \/ Goes(p, "seed", "dirs") /\ db' = [db EXCEPT !.seeded = TRUE]
  /\ UNCHANGED <<prefs, secret, flock, mem, ran, keep, spent, budget, accounts>>

-----------------------------------------------------------------------------
(* Preferences.xml.  The lock is held over the read and the write.         *)

(* Mutant: the lock is taken for the write alone.                          *)
lockForTheWrite(p) == TRUE

lockPreferences(p) == flock = Nobody
Locks(p) == lockPreferences(p) /\ flock' = p
Unlocks(p) == flock' = IF flock = p THEN Nobody ELSE flock

(* CreateIfAbsent: an identity nobody had, when there is no file.          *)
CreateLooks(p) ==
  /\ Goes(p, "dirs", "create") /\ Locks(p)
  /\ mem' = [mem EXCEPT ![p].file = prefs]
  /\ UNCHANGED <<db, prefs, secret, ran, keep, spent, budget, accounts>>

CreateIfAbsent(p) ==
  /\ Goes(p, "create", "apply") /\ Unlocks(p)
  /\ prefs' = IF mem[p].file.id = 0 THEN [NoPrefs EXCEPT !.id = prefs.id + 1] ELSE prefs
  /\ UNCHANGED <<db, secret, mem, ran, keep, spent, budget, accounts>>

(* Apply: the enforced settings are merged into what was read.             *)
ApplyReads(p) ==
  /\ Goes(p, "apply", "merge") /\ Locks(p)
  /\ mem' = [mem EXCEPT ![p].file = prefs]
  /\ UNCHANGED <<db, prefs, secret, ran, keep, spent, budget, accounts>>

Apply(p) ==
  /\ Goes(p, "merge", "settle") /\ Unlocks(p)
  /\ prefs' = [mem[p].file EXCEPT !.forced = TRUE]
  /\ UNCHANGED <<db, secret, mem, ran, keep, spent, budget, accounts>>

-----------------------------------------------------------------------------
(* settleServerToken: Starter.Run, a decision under the lock.              *)

DecideReads(p) ==
  /\ Goes(p, "settle", "decide") /\ Locks(p)
  /\ \/ /\ mem' = [mem EXCEPT ![p] = [file |-> prefs, store |-> TRUE, stored |-> secret,
                                      token |-> 0]]
        /\ UNCHANGED budget
     \/ /\ Refused
        /\ mem' = [mem EXCEPT ![p] = [NoMem EXCEPT !.file = prefs]]
  /\ UNCHANGED <<db, prefs, secret, ran, keep, spent, accounts>>

(* A code for a server with no token or, with a Secret, any code but the   *)
(* one it records; not before Plex has derived the identity it claims as.  *)
Claims(p) ==
  /\ ClaimCode # 0 /\ mem[p].file.derived # 0
  /\ mem[p].file.token = 0 \/ (mem[p].store /\ mem[p].stored.claim # ClaimCode)

(* Exchange: plex.tv takes a code once.                                    *)
Exchange(p) ==
  /\ Goes(p, "decide", "record")
  /\ Claims(p) /\ ~spent /\ spent' = TRUE
  /\ accounts' = accounts + 1
  /\ mem' = [mem EXCEPT ![p].token = accounts + 1]
  /\ UNCHANGED <<db, prefs, secret, flock, ran, keep, budget>>

(* The claim is recorded; a failure is logged.                             *)
Record(p) ==
  /\ Goes(p, "record", "write")
  /\ \/ /\ mem[p].store
        /\ secret' = [token |-> mem[p].token, user |-> 0, claim |-> ClaimCode]
        /\ UNCHANGED budget
     \/ (mem[p].store => Refused) /\ (~mem[p].store => UNCHANGED budget)
        /\ UNCHANGED secret
  /\ UNCHANGED <<db, prefs, flock, mem, ran, keep, spent, accounts>>

WriteClaimed(p) ==
  /\ Goes(p, "write", "start") /\ Unlocks(p)
  /\ prefs' = [mem[p].file EXCEPT !.token = mem[p].token, !.user = 0]
  /\ UNCHANGED <<db, secret, mem, ran, keep, spent, budget, accounts>>

(* Without a claim, or with one refused, the Secret's account is forced;   *)
(* an empty field never is.                                                *)
Over(file, stored) ==
  [file EXCEPT !.token = IF stored.token # 0 THEN stored.token ELSE @,
               !.user = IF stored.user # 0 THEN stored.user ELSE @]
Forces(p) ==
  /\ Goes(p, "decide", "start") /\ Unlocks(p)
  /\ ~Claims(p) \/ spent
  /\ prefs' = IF mem[p].store /\ mem[p].stored.token # 0
              THEN Over(mem[p].file, mem[p].stored) ELSE prefs
  /\ UNCHANGED <<db, secret, mem, ran, keep, spent, budget, accounts>>

(* plex.tv is not reached: the code stays good.                            *)
ExchangeFails(p) ==
  /\ Claims(p) /\ ~spent /\ Refused
  /\ Goes(p, "decide", "start") /\ Unlocks(p)
  /\ prefs' = IF mem[p].store /\ mem[p].stored.token # 0
              THEN Over(mem[p].file, mem[p].stored) ELSE prefs
  /\ UNCHANGED <<db, secret, mem, ran, keep, spent, accounts>>

-----------------------------------------------------------------------------
(* The lease holder's Keeper.Sync: the file is read without the lock, one  *)
(* setting at a time; the Secret is read, then written.                    *)

KeeperLives == \E p \in BootPods : boot[p] = "running"

SyncReadsToken ==
  /\ KeeperLives /\ keep.at = "rest"
  /\ keep' = [AtRest EXCEPT !.at = "user", !.token = prefs.token]
  /\ UNCHANGED <<db, prefs, secret, flock, boot, mem, ran, spent, budget, accounts>>

SyncReadsUser ==
  /\ keep.at = "user"
  /\ keep' = [keep EXCEPT !.at = "get", !.user = prefs.user]
  /\ UNCHANGED <<db, prefs, secret, flock, boot, mem, ran, spent, budget, accounts>>

SyncGets ==
  /\ keep.at = "get"
  /\ \/ keep' = [keep EXCEPT !.at = "put", !.stored = secret] /\ UNCHANGED budget
     \/ keep' = AtRest /\ Refused
  /\ UNCHANGED <<db, prefs, secret, flock, boot, mem, ran, spent, accounts>>

(* What Sync would have the Secret hold.                                   *)
Filled == IF keep.stored.token = 0
          THEN [token |-> keep.token, user |-> keep.user, claim |-> keep.stored.claim]
          ELSE [keep.stored EXCEPT !.user = IF @ = 0 THEN keep.user ELSE @]

(* Put reads the Secret again for its version, so what it replaces is the  *)
(* Secret as it is now, not as Sync read it.                               *)
SyncPuts ==
  /\ keep.at = "put"
  /\ \/ /\ Filled.token = 0 \/ Filled = keep.stored
        /\ keep' = IF Filled.token = 0 THEN AtRest ELSE [keep EXCEPT !.at = "lock"]
        /\ UNCHANGED <<secret, budget>>
     \/ /\ Filled.token # 0 /\ Filled # keep.stored
        /\ secret' = Filled
        /\ keep' = IF keep.stored.token = 0 THEN AtRest
                   ELSE [keep EXCEPT !.at = "lock", !.stored = Filled]
        /\ UNCHANGED budget
     \/ /\ Filled.token # 0 /\ Filled # keep.stored /\ Refused
        /\ keep' = AtRest /\ UNCHANGED secret
  /\ UNCHANGED <<db, prefs, flock, boot, mem, ran, spent, accounts>>

(* Mutant: a file that holds a token already is left alone.                *)
leavesToken(file, stored) == IF file.token # 0 THEN file ELSE Over(file, stored)

forced(file, stored) == Over(file, stored)

SyncForces ==
  /\ keep.at = "lock" /\ flock = Nobody
  /\ prefs' = forced(prefs, keep.stored)
  /\ keep' = AtRest
  /\ UNCHANGED <<db, secret, flock, boot, mem, ran, spent, budget, accounts>>

-----------------------------------------------------------------------------
(* Plex and the rest, external.                                            *)

(* Plex starts: it reads its settings and derives the identity clients see.*)
PlexStarts(p) ==
  /\ Goes(p, "start", "running")
  /\ ran' = [ran EXCEPT ![p].file = prefs]
  /\ prefs' = [prefs EXCEPT !.derived = prefs.id]
  /\ UNCHANGED <<db, secret, flock, mem, keep, spent, budget, accounts>>

(* Plex learns the account's name from plex.tv, and writes it.             *)
PlexNames(p) ==
  /\ boot[p] = "running" /\ flock = Nobody
  /\ prefs.token # 0 /\ prefs.user = 0 /\ prefs.token = ran[p].file.token
  /\ prefs' = [prefs EXCEPT !.user = prefs.token]
  /\ UNCHANGED <<db, secret, flock, boot, mem, ran, keep, spent, budget, accounts>>

SignIn(p) ==
  /\ boot[p] = "running" /\ flock = Nobody /\ budget.signins > 0
  /\ budget' = [budget EXCEPT !.signins = @ - 1]
  /\ accounts' = accounts + 1
  /\ prefs' = [prefs EXCEPT !.token = accounts + 1, !.user = accounts + 1]
  /\ ran' = [ran EXCEPT ![p].file.token = accounts + 1]
  /\ UNCHANGED <<db, secret, flock, boot, mem, keep, spent>>

(* Plex restarts, its manager does not: Preferences runs again.            *)
PlexRestarts(p) ==
  /\ Goes(p, "running", "apply") /\ budget.crashes > 0
  /\ budget' = [budget EXCEPT !.crashes = @ - 1]
  /\ ran' = [ran EXCEPT ![p] = NoMem]
  /\ UNCHANGED <<db, prefs, secret, flock, mem, keep, spent, accounts>>

(* The manager dies: its lock goes with it, and the holder's Sync may too. *)
Crashes(p) ==
  /\ boot[p] # "off" /\ budget.crashes > 0
  /\ budget' = [budget EXCEPT !.crashes = @ - 1]
  /\ boot' = [boot EXCEPT ![p] = "off"]
  /\ mem' = [mem EXCEPT ![p] = NoMem] /\ ran' = [ran EXCEPT ![p] = NoMem]
  /\ Unlocks(p)
  /\ keep' \in {keep, AtRest}
  /\ UNCHANGED <<db, prefs, secret, spent, accounts>>

Start(p) ==
  \/ InitSchema(p) \/ RunFile(p) \/ CreateLooks(p) \/ CreateIfAbsent(p)
  \/ ApplyReads(p) \/ Apply(p) \/ DecideReads(p) \/ Exchange(p) \/ Record(p)
  \/ WriteClaimed(p) \/ Forces(p) \/ PlexStarts(p)
Sync == SyncReadsToken \/ SyncReadsUser \/ SyncGets \/ SyncPuts \/ SyncForces

BootNext ==
  \/ \E p \in BootPods : Start(p) \/ ExchangeFails(p) \/ PlexNames(p) \/ SignIn(p)
                         \/ PlexRestarts(p) \/ Crashes(p)
  \/ Sync

BootSpec == BootInit /\ [][BootNext]_bootVars

-----------------------------------------------------------------------------
(* Every Plex that runs was started as the same server, with the settings  *)
(* the manager enforces: pods that start together neither give the server  *)
(* two identities nor merge away what another wrote (CreateIfAbsent,       *)
(* Apply, Update).                                                         *)
OneServer ==
  \A p, q \in BootPods :
    (boot[p] = "running" /\ boot[q] = "running")
      => /\ ran[p].file.id = ran[q].file.id
         /\ ran[p].file.forced

(* However starts, claims, sign-ins, crashes and failures interleave, the  *)
(* file and the Secret come to hold one token and stay so (Keeper).        *)
AccountSettles == <>[](secret.token # 0 => prefs.token = secret.token)

(* "the fresh token replaces the old in both": the Secret, once it records *)
(* a claim, is not put back to an older account.                           *)
(* The code does not keep it: see the README.                              *)
ClaimKept == [][secret.claim = ClaimCode => secret'.claim = ClaimCode]_bootVars

(* "holds every replica to it": the Secret's token and its username are of *)
(* one account.                                                            *)
(* The code does not keep it: see the README.                              *)
OneAccount == secret.user # 0 => secret.user = secret.token

(* "An empty schema is loaded from the dump and seeded": no Plex runs on a *)
(* part of it.                                                             *)
(* The code does not keep it: see the README.                              *)
WholeSchema == \A p \in BootPods : boot[p] = "running" => db.dump = "whole" /\ db.seeded
=============================================================================
