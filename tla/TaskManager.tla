---------------------------- MODULE TaskManager ----------------------------
(***************************************************************************)
(* FCGITaskManager: KILL, DOWN and ACTIVATE of one site, whose requests    *)
(* Apache hands to workers of the version that .htaccess names.  A worker  *)
(* that finds the .kill file of its version at a request answers with the  *)
(* down page and ends (CheckMarker, the kill check of Wait).               *)
(*                                                                         *)
(* A manager is one run of the program.  Two may run at a time, and one    *)
(* may be ended in the middle.                                             *)
(*                                                                         *)
(* A definition introduced by "Mutant:" is not part of the model: it is    *)
(* what the next one would be with a plausible bug.                        *)
(***************************************************************************)
EXTENDS Naturals, FiniteSets

CONSTANTS
    Versions,       \* the versions an administrator may name
    Installed,      \* those there is an executable of
    Workers,        \* the processes Apache may run at a time
    Managers,
    None,
    Platforms,      \* "linux", where the HTTP calls are disabled, or "windows"
    MaxCrashes      \* a bound

ASSUME ManagerAssumption ==
    /\ Installed \subseteq Versions
    /\ None \notin Versions \cup Workers \cup Managers
    /\ {"down", "none"} \cap Versions = {}
    /\ Platforms \subseteq {"linux", "windows"}
    /\ MaxCrashes \in Nat

VARIABLES
    platform,
    marker,         \* the versions with a .kill file
    htaccess,
    ver, wpc,       \* of each worker: its version, and what it does
    mpc,            \* where each manager is
    cAction, cFcgiVersion, cConfigFinal,
    todo,           \* the executables it has yet to mark
    gets,           \* the processes it has listed and not called yet
    getting,        \* the worker its call has reached
    asleep,         \* those it has listed that have been idle since
    alone,          \* whether no other manager ran at the same time
    before,         \* .htaccess when it began
    last,           \* the manager that began last
    killed,         \* the versions KILL has enabled again
    crashes

site    == <<marker, htaccess>>
workers == <<ver, wpc>>
command == <<cAction, cFcgiVersion, alone, before, last>>
calling == <<gets, getting, asleep>>
vars    == <<platform, site, workers, mpc, command, cConfigFinal, todo, calling, killed, crashes>>

Actions == {"KILL", "DOWN", "ACTIVATE"}
Config  == [route : Versions \cup {"down", "none"}, wrappers : SUBSET Versions]

To(route, wrappers) == [route |-> route, wrappers |-> wrappers]
Empty == To("none", {})

Working == {"unmark", "mark", "save", "open", "write", "list", "wake", "reopen", "rewrite"}
Active(m) == mpc[m] \in Working

TypeOK ==
    /\ platform \in Platforms
    /\ marker \subseteq Versions /\ killed \subseteq Versions
    /\ htaccess \in Config /\ before \in [Managers -> Config]
    /\ ver \in [Workers -> Installed \cup {None}]
    /\ wpc \in [Workers -> {"none", "idle", "taken", "serving"}]
    /\ \A w \in Workers : wpc[w] = "none" <=> ver[w] = None
    /\ mpc \in [Managers -> Working \cup {"new", "done", "dead"}]
    /\ cAction \in [Managers -> Actions \cup {"none"}]
    /\ cFcgiVersion \in [Managers -> Versions \cup {None}]
    /\ cConfigFinal \in [Managers -> Config]
    /\ todo \in [Managers -> SUBSET Versions]
    /\ gets \in [Managers -> SUBSET (Workers \X Installed)]
    /\ getting \in [Managers -> Workers \cup {None}]
    /\ asleep \in [Managers -> SUBSET Workers]
    /\ alone \in [Managers -> BOOLEAN]
    /\ last \in Managers \cup {None}
    /\ crashes \in 0..MaxCrashes

\* The site as an ACTIVATE has left it, with any workers of the version.
Init ==
    /\ platform \in Platforms
    /\ \E v \in Installed :
          /\ htaccess = To(v, {v})
          /\ marker = Installed \ {v}
          /\ ver \in [Workers -> {v, None}]
    /\ wpc = [w \in Workers |-> IF ver[w] = None THEN "none" ELSE "idle"]
    /\ mpc = [m \in Managers |-> "new"]
    /\ cAction = [m \in Managers |-> "none"]
    /\ cFcgiVersion = [m \in Managers |-> None]
    /\ cConfigFinal = [m \in Managers |-> Empty]
    /\ before = [m \in Managers |-> Empty]
    /\ todo = [m \in Managers |-> {}]
    /\ gets = [m \in Managers |-> {}]
    /\ getting = [m \in Managers |-> None]
    /\ asleep = [m \in Managers |-> {}]
    /\ alone = [m \in Managers |-> TRUE]
    /\ last = None /\ killed = {} /\ crashes = 0

-----------------------------------------------------------------------------
(* Apache and the workers *)

\* A request for version v: it is given to an idle worker, or one is started.
Given(v, w) ==
    /\ v \in htaccess.wrappers \cap Installed
    /\ \/ ver[w] = v /\ wpc[w] = "idle"
       \/ /\ ver[w] = None
          /\ \A x \in Workers : ~(ver[x] = v /\ wpc[x] = "idle")
    /\ ver' = [ver EXCEPT ![w] = v]
    /\ wpc' = [wpc EXCEPT ![w] = "taken"]
    /\ asleep' = [m \in Managers |-> asleep[m] \ {w}]

\* By the route, or by an URL that ends in .fcgiexe and a version.
Request(w) ==
    /\ \E v \in htaccess.wrappers : Given(v, w)
    /\ UNCHANGED <<platform, site, mpc, command, cConfigFinal, todo, gets, getting, killed, crashes>>

\* The manager that called gets its answer.
Answered(w) == getting' = [m \in Managers |-> IF getting[m] = w THEN None ELSE getting[m]]

Ends(w) == ver' = [ver EXCEPT ![w] = None] /\ wpc' = [wpc EXCEPT ![w] = "none"]

CheckMarker(w) ==
    /\ wpc[w] = "taken"
    /\ IF ver[w] \in marker THEN Ends(w) /\ Answered(w)
       ELSE wpc' = [wpc EXCEPT ![w] = "serving"] /\ UNCHANGED <<ver, getting>>
    /\ UNCHANGED <<platform, site, mpc, command, cConfigFinal, todo, gets, asleep, killed, crashes>>

Served(w) ==
    /\ wpc[w] = "serving"
    /\ wpc' = [wpc EXCEPT ![w] = "idle"]
    /\ Answered(w)
    /\ UNCHANGED <<platform, site, ver, mpc, command, cConfigFinal, todo, gets, asleep, killed, crashes>>

\* Apache ends a worker that has been idle for long.
Idles(w) ==
    /\ wpc[w] = "idle"
    /\ Ends(w)
    /\ asleep' = [m \in Managers |-> asleep[m] \ {w}]
    /\ UNCHANGED <<platform, site, mpc, command, cConfigFinal, todo, gets, getting, killed, crashes>>

-----------------------------------------------------------------------------
(* FCGITaskManager *)

Goes(m, where) == mpc' = [mpc EXCEPT ![m] = where]

\* Mutant: ACTIVATE marks the version it activates as well.
BeginMarksAll(m, a, v) ==
    /\ mpc[m] = "new"
    /\ Goes(m, IF a = "ACTIVATE" THEN "unmark" ELSE "mark")
    /\ cAction' = [cAction EXCEPT ![m] = a]
    /\ cFcgiVersion' = [cFcgiVersion EXCEPT ![m] = v]
    /\ alone' = [n \in Managers |->
                    IF n = m THEN \A x \in Managers : ~Active(x) ELSE alone[n] /\ ~Active(n)]
    /\ before' = [before EXCEPT ![m] = htaccess]
    /\ last' = m
    /\ todo' = [todo EXCEPT ![m] = IF a = "KILL" THEN {v} ELSE Installed]
    /\ cConfigFinal' = [cConfigFinal EXCEPT ![m] = CASE a = "KILL"     -> Empty
                                                     [] a = "DOWN"     -> To("down", {})
                                                     [] a = "ACTIVATE" -> To(v, {v})]
    /\ UNCHANGED <<platform, site, workers, calling, killed, crashes>>

\* Main, the arguments checked; the version is not, whether it is installed.
Begin(m, a, v) ==
    /\ mpc[m] = "new"
    /\ Goes(m, IF a = "ACTIVATE" THEN "unmark" ELSE "mark")
    /\ cAction' = [cAction EXCEPT ![m] = a]
    /\ cFcgiVersion' = [cFcgiVersion EXCEPT ![m] = v]
    /\ alone' = [n \in Managers |->
                    IF n = m THEN \A x \in Managers : ~Active(x) ELSE alone[n] /\ ~Active(n)]
    /\ before' = [before EXCEPT ![m] = htaccess]
    /\ last' = m
    /\ todo' = [todo EXCEPT ![m] = CASE a = "KILL"     -> {v}
                                     [] a = "DOWN"     -> Installed
                                     [] a = "ACTIVATE" -> Installed \ {v}]
    /\ cConfigFinal' = [cConfigFinal EXCEPT ![m] = CASE a = "KILL"     -> Empty
                                                     [] a = "DOWN"     -> To("down", {})
                                                     [] a = "ACTIVATE" -> To(v, {v})]
    /\ UNCHANGED <<platform, site, workers, calling, killed, crashes>>

\* The configuration to wait with, which has wrappers for those to be ended.
Detour(m) ==
    LET v == cFcgiVersion[m] IN
    CASE cAction[m] = "KILL"     -> To("down", {v})
      [] cAction[m] = "DOWN"     -> To("down", Installed)
      [] cAction[m] = "ACTIVATE" -> To(v, Installed \cup {v})

\* Mutant: .htaccess is written before the others are marked.
MarkLater(m) ==
    /\ mpc[m] = "mark"
    /\ \E u \in todo[m] : /\ marker' = marker \cup {u}
                          /\ killed' = killed \ {u}
                          /\ todo' = [todo EXCEPT ![m] = @ \ {u}]
    /\ htaccess' = Detour(m)
    /\ UNCHANGED <<platform, workers, mpc, command, cConfigFinal, calling, crashes>>

Mark(m) ==
    /\ mpc[m] = "mark"
    /\ \E u \in todo[m] : /\ marker' = marker \cup {u}
                          /\ killed' = killed \ {u}
                          /\ todo' = [todo EXCEPT ![m] = @ \ {u}]
    /\ UNCHANGED <<platform, htaccess, workers, mpc, command, cConfigFinal, calling, crashes>>

AllMarked(m) ==
    /\ mpc[m] = "mark" /\ todo[m] = {}
    /\ Goes(m, IF cAction[m] = "KILL" THEN "save" ELSE "open")
    /\ UNCHANGED <<platform, site, workers, command, cConfigFinal, todo, calling, killed, crashes>>

\* hb_MemoRead, which finds nothing while another manager is writing the file.
Save(m) ==
    /\ mpc[m] = "save"
    /\ cConfigFinal' = [cConfigFinal EXCEPT ![m] = htaccess]
    /\ Goes(m, "open")
    /\ UNCHANGED <<platform, site, workers, command, todo, calling, killed, crashes>>

\* hb_MemoWrit empties the file, then writes it.
Open(m) ==
    /\ mpc[m] \in {"open", "reopen"}
    /\ htaccess' = Empty
    /\ Goes(m, IF mpc[m] = "open" THEN "write" ELSE "rewrite")
    /\ UNCHANGED <<platform, marker, workers, command, cConfigFinal, todo, calling, killed, crashes>>

Write(m) ==
    /\ mpc[m] = "write"
    /\ htaccess' = Detour(m)
    /\ Goes(m, "list")
    /\ UNCHANGED <<platform, marker, workers, command, cConfigFinal, todo, calling, killed, crashes>>

\* The processes of version v are to be ended.
ToEnd(m, v) ==
    CASE cAction[m] = "KILL" -> v = cFcgiVersion[m]
      [] cAction[m] = "DOWN" -> TRUE
      [] OTHER               -> v # cFcgiVersion[m]

Doomed(m) == {w \in Workers : ver[w] # None /\ ToEnd(m, ver[w])}

\* Mutant: one call for each version, not for each process.
ListVersions(m) ==
    /\ mpc[m] = "list"
    /\ Goes(m, "wake")
    /\ \/ /\ platform = "windows"
          /\ gets' = [gets EXCEPT ![m] = {<<CHOOSE w \in Doomed(m) : ver[w] = v, v>> :
                                           v \in {ver[w] : w \in Doomed(m)}}]
          /\ asleep' = [asleep EXCEPT ![m] = {w \in Doomed(m) : wpc[w] = "idle"}]
       \/ UNCHANGED <<gets, asleep>>
    /\ UNCHANGED <<platform, site, workers, command, cConfigFinal, todo, getting, killed, crashes>>

\* After half a second; the processes may not be known, or cannot be called.
List(m) ==
    /\ mpc[m] = "list"
    /\ Goes(m, "wake")
    /\ \/ /\ platform = "windows"
          /\ gets' = [gets EXCEPT ![m] = {<<w, ver[w]>> : w \in Doomed(m)}]
          /\ asleep' = [asleep EXCEPT ![m] = {w \in Doomed(m) : wpc[w] = "idle"}]
       \/ UNCHANGED <<gets, asleep>>
    /\ UNCHANGED <<platform, site, workers, command, cConfigFinal, todo, getting, killed, crashes>>

\* The synchronous GET of AnyFile.fcgiexe and the version of a listed process.
Get(m) ==
    /\ mpc[m] = "wake" /\ getting[m] = None
    /\ \E g \in gets[m], w \in Workers :
          /\ Given(g[2], w)
          /\ gets' = [gets EXCEPT ![m] = @ \ {g}]
          /\ getting' = [getting EXCEPT ![m] = w]
    /\ UNCHANGED <<platform, site, mpc, command, cConfigFinal, todo, killed, crashes>>

\* It fails, or is answered by Apache: no wrapper, no room for another process.
GetFails(m) ==
    /\ mpc[m] = "wake" /\ getting[m] = None
    /\ \E g \in gets[m] :
          /\ gets' = [gets EXCEPT ![m] = @ \ {g}]
          /\ asleep' = [asleep EXCEPT ![m] = {}]
    /\ UNCHANGED <<platform, site, workers, mpc, command, cConfigFinal, todo, getting, killed, crashes>>

Woken(m) ==
    /\ mpc[m] = "wake" /\ getting[m] = None /\ gets[m] = {}
    /\ Goes(m, IF cAction[m] = "KILL" THEN "unmark" ELSE "reopen")
    /\ UNCHANGED <<platform, site, workers, command, cConfigFinal, todo, calling, killed, crashes>>

\* DeleteFile, as the first step of ACTIVATE and the last but one of KILL.
Unmark(m) ==
    /\ mpc[m] = "unmark"
    /\ marker' = marker \ {cFcgiVersion[m]}
    /\ killed' = IF cAction[m] = "KILL" THEN killed \cup {cFcgiVersion[m]} ELSE killed
    /\ Goes(m, IF cAction[m] = "KILL" THEN "reopen" ELSE "mark")
    /\ UNCHANGED <<platform, htaccess, workers, command, cConfigFinal, todo, calling, crashes>>

Rewrite(m) ==
    /\ mpc[m] = "rewrite"
    /\ htaccess' = cConfigFinal[m]
    /\ Goes(m, "done")
    /\ UNCHANGED <<platform, marker, workers, command, cConfigFinal, todo, calling, killed, crashes>>

Crash(m) ==
    /\ Active(m)
    /\ crashes < MaxCrashes
    /\ crashes' = crashes + 1
    /\ Goes(m, "dead")
    /\ getting' = [getting EXCEPT ![m] = None]
    /\ UNCHANGED <<platform, site, workers, command, cConfigFinal, todo, gets, asleep, killed>>

-----------------------------------------------------------------------------
Manager(m) ==
    \/ Mark(m) \/ AllMarked(m) \/ Save(m) \/ Open(m) \/ Write(m) \/ List(m)
    \/ Get(m) \/ GetFails(m) \/ Woken(m) \/ Unmark(m) \/ Rewrite(m)

Worker(w) == CheckMarker(w) \/ Served(w)

Next ==
    \/ \E w \in Workers : Worker(w) \/ Request(w) \/ Idles(w)
    \/ \E m \in Managers : \/ Manager(m) \/ Crash(m)
                           \/ \E a \in Actions, v \in Versions \cup {None} :
                                 (a = "DOWN" <=> v = None) /\ Begin(m, a, v)

Spec == Init /\ [][Next]_vars

-----------------------------------------------------------------------------
(* Properties *)

\* Managers ran one after the other, and none was ended in the middle.
Calm == \A m \in Managers : alone[m] /\ mpc[m] # "dead"

\* At every moment of every command, whatever version a request may reach beside the
\* one the site leads to will turn it away; but for KILL, which enables its version
\* again while its own .htaccess is still in force.  (Types first.)
OneVersionReachable ==
    /\ TypeOK
    /\ Calm => \A u \in htaccess.wrappers \ {htaccess.route} :
        \/ u \in marker \/ u \notin Installed
        \/ \E m \in Managers : cAction[m] = "KILL" /\ cFcgiVersion[m] = u /\ mpc[m] = "reopen"

\* Once the site leads to one version, no worker of another begins to serve a request,
\* those that were given it before included, unless KILL has enabled that version again
\* or it is just being activated; and once a manager that ran alone has taken the site
\* down, no worker does at all.
Allowed(v) ==
    \/ v \in {htaccess.route} \cup killed
    \/ \E m \in Managers : Active(m) /\ cAction[m] = "ACTIVATE" /\ cFcgiVersion[m] = v
TakenDown == last # None /\ cAction[last] = "DOWN" /\ alone[last] /\ mpc[last] = "done"

NoOldService ==
    [][\A w \in Workers : wpc[w] = "taken" /\ wpc'[w] = "serving" =>
           /\ Calm /\ htaccess.route \in Versions => Allowed(ver[w])
           /\ ~TakenDown]_vars

\* A manager that runs alone leaves the site as it was asked to, whatever managers
\* that overlapped or were ended in the middle have left behind.
AloneIsEnough ==
    last # None /\ mpc[last] = "done" /\ alone[last] /\ (\A m \in Managers : ~Active(m)) =>
        LET v == cFcgiVersion[last] IN
        CASE cAction[last] = "ACTIVATE" -> /\ htaccess = To(v, {v})
                                           /\ marker \cap Installed = Installed \ {v}
                                           /\ v \notin marker
          [] cAction[last] = "DOWN"     -> htaccess = To("down", {}) /\ Installed \subseteq marker
          [] cAction[last] = "KILL"     -> htaccess = before[last] /\ v \notin marker

\* Where the processes are called, each that was idle when they were listed is gone
\* before the marker is, or the version: it takes a call for each process, since Apache
\* chooses who gets it.
IdleAreEnded ==
    \A m \in Managers : mpc[m] \in {"unmark", "reopen"} /\ gets[m] = {} /\ Calm
        /\ ~(cAction[m] = "ACTIVATE" /\ mpc[m] = "unmark") => asleep[m] = {}

=============================================================================
