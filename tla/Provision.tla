------------------------------ MODULE Provision ------------------------------
(***************************************************************************)
(* The lease holder's provisioning of libraries into Plex                  *)
(* (pkg/plex/provision): one metadata provider, its agent, the library     *)
(* sections and their settings.  A pass is a sequence of Plex API calls,   *)
(* each of which may fail before or after it took effect, and is made      *)
(* again by the next pass; an operator changes libraries between them.     *)
(***************************************************************************)
EXTENDS Naturals

CONSTANTS
  Libs,          \* the configured libraries
  Switched,      \* those with switchAgent
  MaxApiErrors,  \* calls that fail
  MaxOperator    \* what the operator changes

VARIABLES
  plex,          \* [provider, group, section, wrote]: the provider registered, its agent made,
                 \* per library NoSection or [agent, refreshed, prefs], and a bit each write flips
  prov,          \* the pass: [at, root, listed, todo, ensured, lib]
  keys,          \* the libraries whose section key the last pass recorded
  provLeft       \* [errors, operator]

provVars == <<plex, prov, keys, provLeft>>

NoSection == [agent |-> "none"]
(* prefs: as Plex ships them, or as wanted, which Plex spells its own way. *)
NewSection == [agent |-> "ours", refreshed |-> TRUE, prefs |-> "shipped"]
OldSection == [agent |-> "plex", refreshed |-> FALSE, prefs |-> "shipped"]
Resting == [at |-> "rest", root |-> FALSE, listed |-> [l \in Libs |-> NoSection], todo |-> {}, ensured |-> {}, lib |-> "none"]

ProvisionInit ==
  /\ \E old \in SUBSET Libs :
       plex = [provider |-> FALSE, group |-> FALSE, wrote |-> FALSE,
               section |-> [l \in Libs |-> IF l \in old THEN OldSection ELSE NoSection]]
  /\ prov = Resting
  /\ keys = {}
  /\ provLeft = [errors |-> MaxApiErrors, operator |-> MaxOperator]

Listed == {l \in Libs : prov.listed[l] # NoSection}
Wrote(p) == [p EXCEPT !.wrote = ~@]

-----------------------------------------------------------------------------
(* The pass.  A call that fails ends it, but for a library's own calls,    *)
(* which leave that library to the next pass.                              *)

PassBegins(answers) ==
  /\ prov.at = "rest"
  /\ ~answers => provLeft.errors > 0
  /\ provLeft' = IF answers THEN provLeft ELSE [provLeft EXCEPT !.errors = @ - 1]
  /\ prov' = [Resting EXCEPT !.at = "providers", !.root = answers]
  /\ UNCHANGED <<plex, keys>>

(* AddProvider, unless Plex lists it; UpdateProvider is the same write.    *)
RegistersProvider ==
  /\ prov.at = "providers"
  /\ plex' = IF prov.root /\ ~plex.provider THEN Wrote([plex EXCEPT !.provider = TRUE]) ELSE plex
  /\ prov' = [prov EXCEPT !.at = "groups"]
  /\ UNCHANGED <<keys, provLeft>>

EnsuresGroup ==
  /\ prov.at = "groups"
  /\ plex' = IF prov.root /\ ~plex.group THEN Wrote([plex EXCEPT !.group = TRUE]) ELSE plex
  /\ prov' = [prov EXCEPT !.at = "sections"]
  /\ UNCHANGED <<keys, provLeft>>

(* The libraries of a root that does not answer are left for later.        *)
ListsSections ==
  /\ prov.at = "sections"
  /\ prov' = [prov EXCEPT !.listed = plex.section, !.todo = IF prov.root THEN Libs ELSE {},
                          !.at = IF prov.root THEN "libraries" ELSE "record"]
  /\ UNCHANGED <<plex, keys, provLeft>>

(* After the last library: listed again, if any was ensured.               *)
NextLibrary(ok, l) ==
  LET todo == prov.todo \ {l}
      done == IF ok THEN prov.ensured \cup {l} ELSE prov.ensured
  IN [prov EXCEPT !.todo = todo, !.ensured = done, !.lib = "none",
                  !.at = IF todo # {} THEN "libraries" ELSE IF done # {} THEN "again" ELSE "record"]

(* ensureLibrary: created when it was not listed, left when it is on its   *)
(* agent or must not be moved, else moved and then refreshed.              *)
CreatesSection(l) ==
  /\ prov.at = "libraries" /\ l \in prov.todo \ Listed
  /\ plex' = Wrote([plex EXCEPT !.section[l] = NewSection])
  /\ prov' = NextLibrary(TRUE, l)
  /\ UNCHANGED <<keys, provLeft>>

ChangesAgent(l) == l \in Listed \cap Switched /\ prov.listed[l].agent # "ours"

LeavesSection(l) ==
  /\ prov.at = "libraries" /\ l \in prov.todo \cap Listed /\ ~ChangesAgent(l)
  /\ prov' = NextLibrary(TRUE, l)
  /\ UNCHANGED <<plex, keys, provLeft>>

SetsAgent(l) ==
  /\ prov.at = "libraries" /\ l \in prov.todo /\ ChangesAgent(l)
  /\ IF plex.section[l] = NoSection
     THEN prov' = NextLibrary(FALSE, l) /\ UNCHANGED plex
     ELSE /\ plex' = Wrote([plex EXCEPT !.section[l].agent = "ours"])
          /\ prov' = [prov EXCEPT !.at = "refresh", !.lib = l]
  /\ UNCHANGED <<keys, provLeft>>

RefreshesSection ==
  /\ prov.at = "refresh"
  /\ IF plex.section[prov.lib] = NoSection
     THEN prov' = NextLibrary(FALSE, prov.lib) /\ UNCHANGED plex
     ELSE /\ plex' = Wrote([plex EXCEPT !.section[prov.lib].refreshed = TRUE])
          /\ prov' = NextLibrary(TRUE, prov.lib)
  /\ UNCHANGED <<keys, provLeft>>

ListsAgain ==
  /\ prov.at = "again"
  /\ prov' = [prov EXCEPT !.listed = plex.section, !.todo = prov.ensured, !.at = "settings"]
  /\ UNCHANGED <<plex, keys, provLeft>>

(* Mutant: PMS's "true" and "false" are not the "1" and "0" it is sent.    *)
asSent(p) == p # "wanted"

(* What differs from the settings wanted, PMS's spelling read as its own.  *)
differs(p) == p = "shipped"

(* ensureSectionSettings: read, and written only where they differ.  Plex  *)
(* reads them back in its own spelling.                                    *)
EnsuresSettings(l) ==
  /\ prov.at = "settings" /\ l \in prov.todo
  /\ plex' = IF l \in Listed /\ plex.section[l] # NoSection /\ differs(plex.section[l].prefs)
             THEN Wrote([plex EXCEPT !.section[l].prefs = "spelled"]) ELSE plex
  /\ prov' = [prov EXCEPT !.todo = @ \ {l}, !.at = IF prov.todo = {l} THEN "record" ELSE "settings"]
  /\ UNCHANGED <<keys, provLeft>>

(* recordKeys, from the last list, and the caller's wait.                  *)
RecordsKeys ==
  /\ prov.at = "record"
  /\ keys' = Listed
  /\ prov' = Resting
  /\ UNCHANGED <<plex, provLeft>>

-----------------------------------------------------------------------------
(* A call fails: Plex did not take it, or did and the answer was lost.     *)
Fault == provLeft.errors > 0 /\ provLeft' = [provLeft EXCEPT !.errors = @ - 1]

PassFails ==
  /\ Fault /\ prov.at \in {"providers", "groups", "sections", "again"}
  /\ prov' = Resting
  /\ plex' \in {plex} \cup (IF prov.at = "providers" THEN {[plex EXCEPT !.provider = @ \/ prov.root]} ELSE {})
                      \cup (IF prov.at = "groups" THEN {[plex EXCEPT !.group = @ \/ prov.root]} ELSE {})
  /\ UNCHANGED keys

LibraryFails(l, effect) ==
  /\ Fault /\ prov.at = "libraries" /\ l \in prov.todo
  /\ \/ /\ l \notin Listed
        /\ plex' = IF effect THEN Wrote([plex EXCEPT !.section[l] = NewSection]) ELSE plex
     \/ /\ ChangesAgent(l)
        /\ plex' = IF effect /\ plex.section[l] # NoSection
                   THEN Wrote([plex EXCEPT !.section[l].agent = "ours"]) ELSE plex
  /\ prov' = NextLibrary(FALSE, l)
  /\ UNCHANGED keys

RefreshFails ==
  /\ Fault /\ prov.at = "refresh"
  /\ prov' = NextLibrary(FALSE, prov.lib)
  /\ UNCHANGED <<plex, keys>>

SettingsFail(l) ==
  /\ Fault /\ prov.at = "settings" /\ l \in prov.todo
  /\ prov' = [prov EXCEPT !.todo = @ \ {l},
                          !.at = IF prov.todo = {l} THEN "record" ELSE "settings"]
  /\ UNCHANGED <<plex, keys>>

(* The operator deletes a library or resets its settings, external.        *)
OperatorChanges(l) ==
  /\ provLeft.operator > 0 /\ plex.section[l] # NoSection
  /\ provLeft' = [provLeft EXCEPT !.operator = @ - 1]
  /\ plex' \in {[plex EXCEPT !.section[l] = NoSection], [plex EXCEPT !.section[l].prefs = "shipped"]}
  /\ UNCHANGED <<prov, keys>>

Passes ==
  \/ PassBegins(TRUE) \/ RegistersProvider \/ EnsuresGroup \/ ListsSections \/ ListsAgain
  \/ RefreshesSection \/ RecordsKeys
  \/ \E l \in Libs : CreatesSection(l) \/ LeavesSection(l) \/ SetsAgent(l) \/ EnsuresSettings(l)

ProvisionNext ==
  \/ Passes \/ PassBegins(FALSE) \/ PassFails \/ RefreshFails
  \/ \E l \in Libs : SettingsFail(l) \/ OperatorChanges(l) \/ \E e \in BOOLEAN : LibraryFails(l, e)

-----------------------------------------------------------------------------
(* What a configured library is in the end.                                *)
Provisioned(l) ==
  /\ plex.section[l] # NoSection /\ l \in keys
  /\ ~differs(plex.section[l].prefs)
  /\ plex.section[l].agent = "ours" \/ l \notin Switched

(* "A new agent otherwise applies only to items added from now on": a      *)
(* library that was moved is refreshed on its agent.                       *)
(* The code does not keep it: see the README.                              *)
MovedIsRefreshed ==
  \A l \in Libs : <>[](plex.section[l].agent = "ours" => plex.section[l].refreshed)
=============================================================================
