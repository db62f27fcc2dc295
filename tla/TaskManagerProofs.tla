-------------------------- MODULE TaskManagerProofs --------------------------
(***************************************************************************)
(* TaskManager for any versions, workers and managers, any number of them  *)
(* ended in the middle: what a manager that runs alone can rely on, and    *)
(* what it leaves.                                                         *)
(***************************************************************************)
EXTENDS TaskManager, Functions, TLAPS

\* What a command asks for.
ActionInv ==
    \A m \in Managers : mpc[m] \in Working \cup {"done"} =>
        /\ cAction[m] \in Actions
        /\ cAction[m] # "DOWN" => cFcgiVersion[m] \in Versions
        /\ mpc[m] = "save" => cAction[m] = "KILL"
        /\ mpc[m] = "unmark" => cAction[m] # "DOWN"

\* A manager that runs alone is the one that began last, and no other runs.
AloneInv ==
    /\ \A m \in Managers : mpc[m] = "new" => alone[m]
    /\ \A m \in Managers : Active(m) /\ alone[m] => m = last
    /\ \A m \in Managers : m = last /\ alone[m] =>
           /\ mpc[m] # "new"
           /\ \A n \in Managers : Active(n) => n = m

-----------------------------------------------------------------------------
(* The site while a manager that runs alone works on it. *)

\* It has not written .htaccess yet.
Early(m) ==
    mpc[m] \in {"mark", "save", "open"} \/ (mpc[m] = "unmark" /\ cAction[m] = "ACTIVATE")

\* The other configuration is in force.
Waiting(m) ==
    mpc[m] \in {"list", "wake", "reopen"} \/ (mpc[m] = "unmark" /\ cAction[m] = "KILL")

\* KILL has removed its marker again.
Enabled(m) == cAction[m] = "KILL" /\ mpc[m] \in {"reopen", "rewrite", "done"}

Targets(m) == CASE cAction[m] = "KILL"     -> {cFcgiVersion[m]}
                [] cAction[m] = "DOWN"     -> Installed
                [] cAction[m] = "ACTIVATE" -> Installed \ {cFcgiVersion[m]}

\* Each executable is marked, or on the list of those to be; and what the command
\* enables is enabled.
MarkedBy(m) ==
    /\ todo[m] \subseteq Targets(m)
    /\ IF mpc[m] = "mark" \/ (mpc[m] = "unmark" /\ cAction[m] = "ACTIVATE")
       THEN Targets(m) \subseteq marker \cup todo[m]
       ELSE Enabled(m) \/ Targets(m) \subseteq marker
    /\ cAction[m] = "ACTIVATE" /\ mpc[m] # "unmark" => cFcgiVersion[m] \notin marker
    /\ Enabled(m) => cFcgiVersion[m] \notin marker

Final(m) == CASE cAction[m] = "KILL"     -> before[m]
              [] cAction[m] = "DOWN"     -> To("down", {})
              [] cAction[m] = "ACTIVATE" -> To(cFcgiVersion[m], {cFcgiVersion[m]})

ConfiguredBy(m) ==
    /\ Early(m) => htaccess = before[m]
    /\ mpc[m] \in {"write", "rewrite"} => htaccess = Empty
    /\ Waiting(m) => htaccess = Detour(m)
    /\ mpc[m] = "done" => htaccess = Final(m)
    /\ ~(cAction[m] = "KILL" /\ mpc[m] \in {"mark", "save"}) => cConfigFinal[m] = Final(m)

SiteInv ==
    \A m \in Managers : m = last /\ alone[m] /\ mpc[m] # "dead" => MarkedBy(m) /\ ConfiguredBy(m)

-----------------------------------------------------------------------------
(* The site as long as managers ran one after the other. *)

\* No version can be reached but the one the site leads to.
Plain(config) == config.wrappers \subseteq {config.route}

\* A version of which there is no marker, and why.
Covered(route) ==
    route \in Versions => \A u \in Installed \ marker :
        \/ u \in {route} \cup killed
        \/ \E m \in Managers : Active(m) /\ cAction[m] = "ACTIVATE" /\ cFcgiVersion[m] = u

CalmInv ==
    Calm => /\ Covered(htaccess.route)
            /\ (\A m \in Managers : ~Active(m)) => Plain(htaccess)
            /\ \A m \in Managers : Active(m) =>
                   /\ Plain(before[m])
                   /\ cAction[m] = "KILL" => Covered(before[m].route)

-----------------------------------------------------------------------------
(* The calls of a manager. *)

\* The workers of version v that are idle or will be: a worker that was given a request
\* for a version with a marker never is again.
Servable(v) == {w \in Workers : ver[w] = v /\ wpc[w] \in {"idle", "serving"}}

Calls(m, v) == {g \in gets[m] : g[2] = v}

\* Before the calls there is no one to be waited for; as long as they go on there are
\* calls enough for all of the version of one that is; afterwards there is no one again.
CallInv ==
    /\ \A m \in Managers : Early(m) \/ mpc[m] \in {"new", "write", "list"} => asleep[m] = {}
    /\ \A m \in Managers, w \in Workers : w \in asleep[m] => wpc[w] = "idle"
    /\ Calm => \A m \in Managers :
           /\ mpc[m] = "wake" => \A w \in asleep[m] :
                 /\ ToEnd(m, ver[w])
                 /\ ExistsInjection(Servable(ver[w]), Calls(m, ver[w]))
           /\ mpc[m] \in {"unmark", "reopen"} => asleep[m] = {}

IInv == TypeOK /\ ActionInv /\ AloneInv /\ SiteInv /\ CalmInv /\ CallInv

-----------------------------------------------------------------------------
(* The parts of TypeOK. *)

SiteType ==
    /\ platform \in Platforms
    /\ marker \subseteq Versions /\ killed \subseteq Versions
    /\ htaccess \in Config
    /\ crashes \in 0..MaxCrashes

WorkerType ==
    /\ ver \in [Workers -> Installed \cup {None}]
    /\ wpc \in [Workers -> {"none", "idle", "taken", "serving"}]
    /\ \A w \in Workers : wpc[w] = "none" <=> ver[w] = None

CommandType ==
    /\ mpc \in [Managers -> Working \cup {"new", "done", "dead"}]
    /\ cAction \in [Managers -> Actions \cup {"none"}]
    /\ cFcgiVersion \in [Managers -> Versions \cup {None}]
    /\ cConfigFinal \in [Managers -> Config]
    /\ todo \in [Managers -> SUBSET Versions]
    /\ before \in [Managers -> Config]
    /\ alone \in [Managers -> BOOLEAN]
    /\ last \in Managers \cup {None}

CallType ==
    /\ gets \in [Managers -> SUBSET (Workers \X Installed)]
    /\ getting \in [Managers -> Workers \cup {None}]
    /\ asleep \in [Managers -> SUBSET Workers]

LEMMA TypeParts ==
    /\ TypeOK <=> SiteType /\ WorkerType /\ CommandType /\ CallType
    /\ TypeOK' <=> SiteType' /\ WorkerType' /\ CommandType' /\ CallType'
  BY DEF TypeOK, SiteType, WorkerType, CommandType, CallType

\* What the managers have to do with, the workers apart.
SitePart == SiteType /\ CommandType /\ ActionInv /\ AloneInv /\ SiteInv /\ CalmInv
CallPart == WorkerType /\ CallType /\ CallInv

LEMMA InvParts ==
    /\ IInv <=> SitePart /\ CallPart
    /\ IInv' <=> SitePart' /\ CallPart'
  BY TypeParts DEF IInv, SitePart, CallPart

\* A step of Apache, of a worker, or a call.
LEMMA SiteStays ==
    ASSUME SitePart, UNCHANGED <<platform, site, mpc, command, cConfigFinal, todo, killed, crashes>>
    PROVE  SitePart' /\ (Calm' <=> Calm)
<1>1. UNCHANGED <<platform, marker, htaccess, mpc, cAction, cFcgiVersion, alone, before, last,
                  cConfigFinal, todo, killed, crashes>>
  BY DEF site, command
<1>2. SiteType' /\ CommandType' /\ ActionInv' /\ AloneInv'
  BY <1>1 DEF SitePart, SiteType, CommandType, ActionInv, AloneInv, Active
<1>3. \A m \in Managers : /\ MarkedBy(m)' <=> MarkedBy(m)
                          /\ ConfiguredBy(m)' <=> ConfiguredBy(m)
  BY <1>1 DEF MarkedBy, ConfiguredBy, Targets, Enabled, Early, Waiting, Detour, Final
<1>4. SiteInv'
  BY <1>1, <1>3 DEF SitePart, SiteInv
<1>5. CalmInv' /\ (Calm' <=> Calm)
  BY <1>1 DEF SitePart, CalmInv, Calm, Covered, Active, Plain
<1> QED BY <1>2, <1>4, <1>5 DEF SitePart

-----------------------------------------------------------------------------
(* Injections *)

LEMMA InjectionSub ==
    ASSUME NEW S, NEW T, NEW R \in SUBSET S, ExistsInjection(S, T)
    PROVE  ExistsInjection(R, T)
<1>1. PICK f \in Injection(S, T) : TRUE
  BY DEF ExistsInjection
<1> DEFINE g == [x \in R |-> f[x]]
<1>2. g \in Injection(R, T)
  BY <1>1 DEF Injection, IsInjective
<1> QED BY <1>2 DEF ExistsInjection

LEMMA InjectionLess ==
    ASSUME NEW S, NEW T, NEW x \in S, NEW y \in T, ExistsInjection(S, T)
    PROVE  ExistsInjection(S \ {x}, T \ {y})
<1>1. PICK f \in Injection(S, T) : TRUE
  BY DEF ExistsInjection
<1>2. f \in [S -> T] /\ \A a, b \in S : f[a] = f[b] => a = b
  BY <1>1 DEF Injection, IsInjective
<1> DEFINE g == [z \in S \ {x} |-> IF f[z] = y THEN f[x] ELSE f[z]]
<1>3. g \in [S \ {x} -> T \ {y}]
  BY <1>2
<1>4. \A a, b \in S \ {x} : g[a] = g[b] => a = b
  BY <1>2
<1>5. g \in Injection(S \ {x}, T \ {y})
  BY <1>3, <1>4 DEF Injection, IsInjective
<1> QED BY <1>5 DEF ExistsInjection

LEMMA InjectionNone ==
    ASSUME NEW S, ExistsInjection(S, {})
    PROVE  S = {}
  BY DEF ExistsInjection, Injection

-----------------------------------------------------------------------------
(* Workers *)

\* Under Calm, the versions that a manager has processes called of have their markers.
LEMMA DoomedMarked ==
    ASSUME SitePart, WorkerType, Calm, NEW m \in Managers, mpc[m] = "wake",
           NEW w \in Workers, ver[w] # None, ToEnd(m, ver[w])
    PROVE  ver[w] \in marker
<1>1. Active(m) /\ alone[m]
  BY DEF Calm, Active, Working
<1>2. MarkedBy(m) /\ cAction[m] \in Actions
  BY <1>1 DEF SitePart, AloneInv, SiteInv, ActionInv, Active
<1>3. Targets(m) \subseteq marker
  BY <1>2 DEF MarkedBy, Enabled
<1>4. ver[w] \in Installed
  BY DEF WorkerType
<1> QED BY <1>2, <1>3, <1>4 DEF ToEnd, Targets, Actions

LEMMA GivenKeeps ==
    ASSUME IInv, NEW v, NEW w \in Workers, Given(v, w)
    PROVE  /\ WorkerType' /\ asleep' \in [Managers -> SUBSET Workers]
           /\ \A m \in Managers : asleep'[m] \subseteq asleep[m]
           /\ \A m \in Managers, x \in Workers : x \in asleep'[m] => wpc'[x] = "idle"
           /\ \A x \in Workers : x # w => ver'[x] = ver[x] /\ wpc'[x] = wpc[x]
           /\ ver'[w] = v /\ wpc'[w] = "taken"
           /\ v \in Installed
           /\ \/ ver[w] = v /\ wpc[w] = "idle"
              \/ ver[w] = None /\ \A x \in Workers : ~(ver[x] = v /\ wpc[x] = "idle")
<1> USE InvParts DEF CallPart, WorkerType, CallType
<1>1. /\ v \in Installed
      /\ ver' = [ver EXCEPT ![w] = v] /\ wpc' = [wpc EXCEPT ![w] = "taken"]
      /\ asleep' = [m \in Managers |-> asleep[m] \ {w}]
      /\ \/ ver[w] = v /\ wpc[w] = "idle"
         \/ ver[w] = None /\ \A x \in Workers : ~(ver[x] = v /\ wpc[x] = "idle")
  BY DEF Given
<1>2. v # None
  BY <1>1, ManagerAssumption
<1>3. WorkerType'
  BY <1>1, <1>2
<1>4. \A m \in Managers, x \in Workers : x \in asleep'[m] => wpc'[x] = "idle"
  BY <1>1 DEF CallInv
<1> QED BY <1>1, <1>3, <1>4

\* With the calls of the managers as they were, fewer to be served and fewer to be
\* waited for.
LEMMA CallsStay ==
    ASSUME IInv, UNCHANGED <<mpc, gets, cAction, cFcgiVersion>>, Calm' => Calm,
           \A m \in Managers : asleep'[m] \subseteq asleep[m],
           \A m \in Managers, x \in Workers : x \in asleep'[m] => wpc'[x] = "idle" /\ ver'[x] = ver[x],
           \A m \in Managers, w \in Workers, v \in Installed :
              Calm /\ mpc[m] = "wake" /\ w \in asleep'[m] /\ v = ver[w] =>
                 Servable(v)' \subseteq Servable(v)
    PROVE  CallInv'
<1> USE InvParts DEF CallPart
<1>1. \A m \in Managers : \A v : Calls(m, v)' = Calls(m, v) /\ (ToEnd(m, v)' <=> ToEnd(m, v))
  BY DEF Calls, ToEnd
<1>2. \A m \in Managers : Early(m)' <=> Early(m)
  BY DEF Early
<1>3. ASSUME Calm, NEW m \in Managers, mpc[m] = "wake", NEW w \in Workers, w \in asleep'[m],
             NEW v, v = ver[w]
      PROVE  ToEnd(m, v)' /\ ExistsInjection(Servable(v)', Calls(m, v)')
  <2>0. v \in Installed
    BY <1>3, ManagerAssumption DEF WorkerType, CallInv
  <2>1. ToEnd(m, v) /\ ExistsInjection(Servable(v), Calls(m, v))
    BY <1>3 DEF CallInv
  <2>2. Servable(v)' \in SUBSET Servable(v)
    BY <1>3, <2>0
  <2>3. ExistsInjection(Servable(v)', Calls(m, v))
    BY <2>1, <2>2, InjectionSub
  <2> QED BY <1>1, <2>1, <2>3
<1>4. ASSUME Calm', NEW m \in Managers, mpc'[m] = "wake", NEW w \in Workers, w \in asleep'[m]
      PROVE  ToEnd(m, ver[w])' /\ ExistsInjection(Servable(ver[w])', Calls(m, ver[w])')
  <2>1. PICK v : v = ver[w] /\ v = ver'[w]
    BY <1>4
  <2>2. ToEnd(m, v)' /\ ExistsInjection(Servable(v)', Calls(m, v)')
    BY <1>3, <1>4, <2>1
  <2> QED BY <2>1, <2>2
<1>5. ASSUME Calm', NEW m \in Managers, mpc'[m] \in {"unmark", "reopen"} PROVE asleep'[m] = {}
  BY <1>5 DEF CallInv
<1>6. ASSUME NEW m \in Managers, Early(m)' \/ mpc'[m] \in {"new", "write", "list"}
      PROVE  asleep'[m] = {}
  BY <1>2, <1>6 DEF CallInv
<1>7. \A m \in Managers : asleep'[m] \subseteq Workers
  BY DEF CallType
<1>8. ASSUME Calm', NEW m \in Managers, mpc'[m] = "wake", NEW w \in asleep'[m]
      PROVE  ToEnd(m, ver[w])' /\ ExistsInjection(Servable(ver[w])', Calls(m, ver[w])')
  BY <1>4, <1>7, <1>8
<1> QED BY <1>5, <1>6, <1>8 DEF CallInv

LEMMA RequestKeeps == ASSUME IInv, NEW w \in Workers, Request(w) PROVE IInv'
<1> USE InvParts
<1>1. /\ UNCHANGED <<platform, site, mpc, command, cConfigFinal, todo, gets, getting, killed, crashes>>
      /\ \E v \in htaccess.wrappers : Given(v, w)
  BY DEF Request
<1>2. PICK v \in htaccess.wrappers : Given(v, w)
  BY <1>1
<1>3. SitePart' /\ (Calm' <=> Calm)
  BY <1>1, SiteStays
<1>4. /\ WorkerType' /\ asleep' \in [Managers -> SUBSET Workers]
      /\ \A m \in Managers : asleep'[m] \subseteq asleep[m]
      /\ \A m \in Managers, x \in Workers : x \in asleep'[m] => wpc'[x] = "idle"
      /\ \A x \in Workers : x # w => ver'[x] = ver[x] /\ wpc'[x] = wpc[x]
      /\ wpc'[w] = "taken"
  BY <1>2, GivenKeeps
<1>5. \A u : Servable(u)' \subseteq Servable(u)
  BY <1>4 DEF Servable
<1>6. CallInv'
  BY <1>1, <1>3, <1>4, <1>5, CallsStay DEF command
<1>7. CallType'
  BY <1>1, <1>4 DEF CallPart, CallType
<1> QED BY <1>3, <1>4, <1>6, <1>7 DEF CallPart

\* A worker that finds no marker is of no version that is to be ended.
LEMMA CheckMarkerKeeps == ASSUME IInv, NEW w \in Workers, CheckMarker(w) PROVE IInv'
<1> USE InvParts
<1>1. /\ UNCHANGED <<platform, site, mpc, command, cConfigFinal, todo, gets, asleep, killed, crashes>>
      /\ wpc[w] = "taken"
      /\ \/ ver[w] \in marker /\ ver' = [ver EXCEPT ![w] = None] /\ wpc' = [wpc EXCEPT ![w] = "none"]
         \/ ver[w] \notin marker /\ ver' = ver /\ wpc' = [wpc EXCEPT ![w] = "serving"]
      /\ getting' = getting \/ getting' = [m \in Managers |-> IF getting[m] = w THEN None ELSE getting[m]]
  BY DEF CheckMarker, Ends, Answered
<1>2. SitePart' /\ (Calm' <=> Calm)
  BY <1>1, SiteStays
<1>3. WorkerType'
  BY <1>1, ManagerAssumption DEF CallPart, WorkerType
<1>4. CallType'
  BY <1>1 DEF CallPart, CallType
<1>5. \A m \in Managers, x \in Workers : x \in asleep'[m] => wpc'[x] = "idle" /\ ver'[x] = ver[x]
  BY <1>1 DEF CallPart, CallInv, WorkerType
<1>6. ASSUME NEW m \in Managers, NEW x \in Workers, NEW v \in Installed,
             Calm, mpc[m] = "wake", x \in asleep'[m], v = ver[x]
      PROVE  Servable(v)' \subseteq Servable(v)
  <2>1. ToEnd(m, v) /\ v # None
    BY <1>1, <1>6, ManagerAssumption DEF CallPart, CallInv
  <2>2. v \in marker
    BY <1>6, <2>1, DoomedMarked DEF CallPart
  <2>3. CASE ver[w] \in marker
    BY <1>1, <2>1, <2>3 DEF Servable, CallPart, WorkerType
  <2>4. CASE ver[w] \notin marker
    BY <1>1, <2>2, <2>4 DEF Servable, CallPart, WorkerType
  <2> QED BY <2>3, <2>4
<1>7. CallInv'
  BY <1>1, <1>2, <1>5, <1>6, CallsStay DEF command
<1> QED BY <1>2, <1>3, <1>4, <1>7 DEF CallPart

LEMMA ServedKeeps == ASSUME IInv, NEW w \in Workers, Served(w) PROVE IInv'
<1> USE InvParts
<1>1. /\ UNCHANGED <<platform, site, ver, mpc, command, cConfigFinal, todo, gets, asleep, killed, crashes>>
      /\ wpc[w] = "serving" /\ wpc' = [wpc EXCEPT ![w] = "idle"]
      /\ getting' = [m \in Managers |-> IF getting[m] = w THEN None ELSE getting[m]]
  BY DEF Served, Answered
<1>2. SitePart' /\ (Calm' <=> Calm)
  BY <1>1, SiteStays
<1>3. WorkerType' /\ CallType'
  BY <1>1 DEF CallPart, WorkerType, CallType
<1>4. \A m \in Managers, x \in Workers : x \in asleep'[m] => wpc'[x] = "idle" /\ ver'[x] = ver[x]
  BY <1>1 DEF CallPart, CallInv, WorkerType
<1>5. \A v : Servable(v)' \subseteq Servable(v)
  BY <1>1 DEF Servable, CallPart, WorkerType
<1>6. CallInv'
  BY <1>1, <1>2, <1>4, <1>5, CallsStay DEF command
<1> QED BY <1>2, <1>3, <1>6 DEF CallPart

LEMMA IdlesKeeps == ASSUME IInv, NEW w \in Workers, Idles(w) PROVE IInv'
<1> USE InvParts
<1>1. /\ UNCHANGED <<platform, site, mpc, command, cConfigFinal, todo, gets, getting, killed, crashes>>
      /\ ver' = [ver EXCEPT ![w] = None] /\ wpc' = [wpc EXCEPT ![w] = "none"]
      /\ asleep' = [m \in Managers |-> asleep[m] \ {w}]
  BY DEF Idles, Ends
<1>2. SitePart' /\ (Calm' <=> Calm)
  BY <1>1, SiteStays
<1>3. WorkerType' /\ CallType'
  BY <1>1, ManagerAssumption DEF CallPart, WorkerType, CallType
<1>4. \A m \in Managers, x \in Workers : x \in asleep'[m] => wpc'[x] = "idle" /\ ver'[x] = ver[x]
  BY <1>1 DEF CallPart, CallInv, WorkerType
<1>5. \A v \in Installed : Servable(v)' \subseteq Servable(v)
  BY <1>1, ManagerAssumption DEF Servable, CallPart, WorkerType
<1>6. \A m \in Managers : asleep'[m] \subseteq asleep[m]
  BY <1>1
<1>7. CallInv'
  BY <1>1, <1>2, <1>4, <1>5, <1>6, CallsStay DEF command
<1> QED BY <1>2, <1>3, <1>7 DEF CallPart

-----------------------------------------------------------------------------
(* Managers *)

\* What is known of a manager that runs, above all of one that runs alone.
LEMMA Running ==
    ASSUME SitePart, NEW m \in Managers, Active(m)
    PROVE  /\ cAction[m] \in Actions /\ (cAction[m] # "DOWN" => cFcgiVersion[m] \in Versions)
           /\ m = last /\ alone[m] => MarkedBy(m) /\ ConfiguredBy(m)
           /\ \A k \in Managers : k = last /\ alone[k] => k = m
           /\ Calm => /\ m = last /\ alone[m]
                      /\ \A n \in Managers : Active(n) => n = m
                      /\ Covered(htaccess.route) /\ Plain(before[m])
                      /\ cAction[m] = "KILL" => Covered(before[m].route)
<1>1. /\ cAction[m] \in Actions /\ (cAction[m] # "DOWN" => cFcgiVersion[m] \in Versions)
      /\ \A k \in Managers : k = last /\ alone[k] => k = m
  BY DEF SitePart, ActionInv, AloneInv, Active
<1>2. m = last /\ alone[m] => MarkedBy(m) /\ ConfiguredBy(m)
  BY DEF SitePart, SiteInv, Active, Working
<1>3. ASSUME Calm PROVE m = last /\ alone[m] /\ \A n \in Managers : Active(n) => n = m
  BY <1>3 DEF Calm, SitePart, AloneInv
<1>4. Calm => /\ Covered(htaccess.route) /\ Plain(before[m])
              /\ cAction[m] = "KILL" => Covered(before[m].route)
  BY DEF SitePart, CalmInv
<1> QED BY <1>1, <1>2, <1>3, <1>4

\* A step of a manager that goes to p.
LEMMA GoesOn ==
    ASSUME SitePart, NEW m \in Managers, Active(m), NEW p \in Working \cup {"done", "dead"},
           mpc' = [mpc EXCEPT ![m] = p], UNCHANGED command,
           p = "save" => cAction[m] = "KILL", p = "unmark" => cAction[m] # "DOWN",
           SiteType', cConfigFinal' \in [Managers -> Config], todo' \in [Managers -> SUBSET Versions],
           m = last /\ alone[m] /\ p # "dead" => MarkedBy(m)' /\ ConfiguredBy(m)',
           CalmInv'
    PROVE  SitePart'
<1>1. UNCHANGED <<cAction, cFcgiVersion, alone, before, last>>
  BY DEF command
<1>2. mpc' \in [Managers -> Working \cup {"new", "done", "dead"}]
      /\ mpc'[m] = p /\ \A n \in Managers : n # m => mpc'[n] = mpc[n]
  BY DEF SitePart, CommandType
<1>3. CommandType'
  BY <1>1, <1>2 DEF SitePart, CommandType
<1>4. ActionInv'
  BY <1>1, <1>2, Running DEF SitePart, ActionInv
<1>5. p # "new" /\ \A n \in Managers : Active(n)' => Active(n)
  BY <1>2 DEF Active, Working
<1>6. AloneInv'
  BY <1>1, <1>2, <1>5 DEF SitePart, AloneInv
<1>7. SiteInv'
  BY <1>1, <1>2, Running DEF SiteInv
<1> QED BY <1>3, <1>4, <1>6, <1>7 DEF SitePart

\* Its step leaves Calm as it is, or ends it.
LEMMA CalmGoesOn ==
    ASSUME SitePart, NEW m \in Managers, Active(m), NEW p \in Working \cup {"done", "dead"},
           mpc' = [mpc EXCEPT ![m] = p], UNCHANGED command
    PROVE  /\ Calm' => Calm /\ p # "dead"
           /\ Calm => \A n \in Managers : Active(n)' => n = m
           /\ Active(m)' <=> p \in Working
           /\ mpc'[m] = p /\ \A n \in Managers : n # m => mpc'[n] = mpc[n]
<1>1. UNCHANGED <<cAction, cFcgiVersion, alone, before, last>>
  BY DEF command
<1>2. mpc'[m] = p /\ \A n \in Managers : n # m => mpc'[n] = mpc[n]
  BY DEF SitePart, CommandType
<1>3. Calm' => Calm /\ p # "dead"
  BY <1>1, <1>2 DEF Calm, Active, Working
<1>4. Calm => \A n \in Managers : Active(n)' => n = m
  BY <1>2, Running DEF Active
<1> QED BY <1>2, <1>3, <1>4 DEF Active

\* What remains covered by a step that leaves the markers, or marks.
LEMMA CoveredStays ==
    ASSUME NEW r, Covered(r), marker \cup killed \subseteq marker' \cup killed',
           \A n \in Managers : Active(n) /\ cAction[n] = "ACTIVATE" => Active(n)',
           UNCHANGED <<cAction, cFcgiVersion>>
    PROVE  r \in Versions => \A u \in Installed \ marker' :
              \/ u \in {r} \cup killed'
              \/ \E n \in Managers : Active(n)' /\ cAction'[n] = "ACTIVATE" /\ cFcgiVersion'[n] = u
  BY DEF Covered

\* The calls of a manager that goes to p without a call.
LEMMA CallsGoOn ==
    ASSUME IInv, NEW m \in Managers, Active(m), NEW p \in Working \cup {"done", "dead"},
           mpc' = [mpc EXCEPT ![m] = p], UNCHANGED <<command, workers, calling>>,
           p \in {"mark", "save", "open", "write", "list"} => Early(m) \/ mpc[m] = "write",
           p = "wake" => mpc[m] = "wake",
           p = "unmark" => cAction[m] # "ACTIVATE" \/ mpc[m] = "unmark",
           Calm /\ p \in {"unmark", "reopen"} => asleep[m] = {}
    PROVE  CallPart'
<1> USE InvParts DEF CallPart
<1>1. UNCHANGED <<cAction, cFcgiVersion, ver, wpc, gets, getting, asleep>>
  BY DEF command, workers, calling
<1>2. /\ Calm' => Calm
      /\ mpc'[m] = p /\ \A n \in Managers : n # m => mpc'[n] = mpc[n]
  BY CalmGoesOn
<1>3. WorkerType' /\ CallType'
  BY <1>1 DEF WorkerType, CallType
<1>4. \A n \in Managers : \A v :
          /\ Calls(n, v)' = Calls(n, v) /\ (ToEnd(n, v)' <=> ToEnd(n, v))
          /\ Servable(v)' = Servable(v)
  BY <1>1 DEF Calls, ToEnd, Servable
<1>5. \A n \in Managers : n # m => (Early(n)' <=> Early(n))
  BY <1>1, <1>2 DEF Early
<1>6. Early(m)' \/ mpc'[m] \in {"new", "write", "list"} => asleep[m] = {}
  <2>1. p # "new"
    BY DEF Working
  <2>2. p = "unmark" /\ cAction[m] = "ACTIVATE" => Early(m)
    BY DEF Early
  <2>3. Early(m)' \/ mpc'[m] \in {"new", "write", "list"} => Early(m) \/ mpc[m] = "write"
    BY <1>1, <1>2, <2>1, <2>2 DEF Early
  <2> QED BY <2>3 DEF CallInv
<1>7. ASSUME NEW n \in Managers, Early(n)' \/ mpc'[n] \in {"new", "write", "list"}
      PROVE  asleep'[n] = {}
  BY <1>1, <1>2, <1>5, <1>6, <1>7 DEF CallInv
<1>8. ASSUME Calm', NEW n \in Managers, mpc'[n] = "wake", NEW w \in asleep'[n]
      PROVE  ToEnd(n, ver[w])' /\ ExistsInjection(Servable(ver[w])', Calls(n, ver[w])')
  <2>1. ToEnd(n, ver[w]) /\ ExistsInjection(Servable(ver[w]), Calls(n, ver[w]))
    BY <1>1, <1>2, <1>8 DEF CallInv
  <2> QED BY <1>1, <1>4, <2>1
<1>9. ASSUME Calm', NEW n \in Managers, mpc'[n] \in {"unmark", "reopen"} PROVE asleep'[n] = {}
  BY <1>1, <1>2, <1>9 DEF CallInv
<1>10. \A n \in Managers, w \in Workers : w \in asleep'[n] => wpc'[w] = "idle"
  BY <1>1 DEF CallInv
<1>11. CallInv'
  BY <1>7, <1>8, <1>9, <1>10 DEF CallInv
<1> QED BY <1>3, <1>11

-----------------------------------------------------------------------------
(* The commands, step by step *)

\* Both configurations of a command are configurations.
LEMMA ConfigTypes ==
    ASSUME SitePart, NEW m \in Managers, Active(m)
    PROVE  Detour(m) \in Config /\ Empty \in Config
<1>1. \A r \in Versions \cup {"down", "none"}, ws \in SUBSET Versions : To(r, ws) \in Config
  BY DEF To, Config
<1>2. Empty \in Config
  BY <1>1 DEF Empty
<1>3. Detour(m) \in Config
  BY <1>1, Running, ManagerAssumption DEF Detour, Actions
<1> QED BY <1>2, <1>3

\* A step of a manager on the site when only its place changes, and its configurations.
LEMMA PlaceOnly ==
    ASSUME SitePart, NEW m \in Managers, Active(m), NEW p \in Working,
           mpc' = [mpc EXCEPT ![m] = p], UNCHANGED <<command, marker, killed>>,
           Calm /\ m = last /\ alone[m] => Covered(htaccess'.route)
    PROVE  CalmInv'
<1>1. UNCHANGED <<cAction, cFcgiVersion, alone, before, last>>
  BY DEF command
<1>2. SUFFICES ASSUME Calm'
               PROVE  /\ Covered(htaccess.route)'
                      /\ Active(m)' /\ \A n \in Managers : Active(n)' => n = m
                      /\ Plain(before[m])'
                      /\ cAction'[m] = "KILL" => Covered(before[m].route)'
  BY <1>1 DEF CalmInv
<1>3. /\ Calm /\ Active(m)' /\ \A n \in Managers : Active(n)' => n = m
      /\ mpc'[m] = p /\ \A n \in Managers : n # m => mpc'[n] = mpc[n]
  BY <1>2, CalmGoesOn
<1>4. /\ m = last /\ alone[m] /\ Plain(before[m])
      /\ cAction[m] = "KILL" => Covered(before[m].route)
  BY <1>3, Running
<1>5. \A n \in Managers : Active(n) => Active(n)'
  BY <1>3 DEF Active
<1>6. ASSUME NEW r, Covered(r) PROVE Covered(r)'
  BY <1>1, <1>5, <1>6, CoveredStays DEF Covered
<1>7. Covered(htaccess.route)'
  BY <1>3, <1>4, <1>1, <1>5 DEF Covered
<1>8. cAction'[m] = "KILL" => Covered(before[m].route)'
  BY <1>1, <1>4, <1>5 DEF Covered
<1>9. Plain(before[m])'
  BY <1>1, <1>4 DEF Plain
<1> QED BY <1>3, <1>7, <1>8, <1>9

LEMMA MarkKeeps == ASSUME IInv, NEW m \in Managers, Mark(m) PROVE IInv'
<1> USE InvParts
<1>1. /\ mpc[m] = "mark" /\ Active(m)
      /\ UNCHANGED <<platform, htaccess, workers, mpc, command, cConfigFinal, calling, crashes>>
  BY DEF Mark, Active, Working
<1>2. PICK u \in todo[m] : /\ marker' = marker \cup {u} /\ killed' = killed \ {u}
                           /\ todo' = [todo EXCEPT ![m] = @ \ {u}]
  BY DEF Mark
<1>3. UNCHANGED <<cAction, cFcgiVersion, alone, before, last>>
  BY <1>1 DEF command
<1>4. mpc' = [mpc EXCEPT ![m] = "mark"]
  BY <1>1 DEF SitePart, CommandType
<1>5. u \in Versions /\ todo' \in [Managers -> SUBSET Versions] /\ todo'[m] = todo[m] \ {u}
  BY <1>2 DEF SitePart, CommandType
<1>6. SiteType' /\ cConfigFinal' \in [Managers -> Config]
  BY <1>1, <1>2, <1>5 DEF SitePart, SiteType, CommandType
<1>7. ASSUME m = last, alone[m] PROVE MarkedBy(m)' /\ ConfiguredBy(m)'
  <2>1. MarkedBy(m) /\ ConfiguredBy(m)
    BY <1>1, <1>7, Running
  <2>2. Targets(m)' = Targets(m) /\ (Enabled(m)' <=> Enabled(m)) /\ ~Enabled(m)
    BY <1>1, <1>3 DEF Targets, Enabled
  <2>3. u \in Targets(m) /\ cAction[m] \in Actions
    BY <1>1, <1>2, <2>1, Running DEF MarkedBy
  <2>4. cAction[m] = "ACTIVATE" => cFcgiVersion[m] \notin marker'
    BY <1>1, <1>2, <2>1, <2>3 DEF MarkedBy, Targets
  <2>5. MarkedBy(m)'
    BY <1>1, <1>2, <1>3, <1>5, <2>1, <2>2, <2>4 DEF MarkedBy
  <2>6. ConfiguredBy(m)'
    BY <1>1, <1>3, <2>1 DEF ConfiguredBy, Early, Waiting, Detour, Final
  <2> QED BY <2>5, <2>6
<1>8. CalmInv'
  <2>1. \A n \in Managers : Active(n)' <=> Active(n)
    BY <1>1 DEF Active
  <2>2. Calm' <=> Calm
    BY <1>1, <1>3 DEF Calm
  <2>3. marker \cup killed \subseteq marker' \cup killed'
    BY <1>2
  <2>4. ASSUME NEW r, Covered(r)
        PROVE  r \in Versions => \A x \in Installed \ marker' :
                  \/ x \in {r} \cup killed'
                  \/ \E n \in Managers : Active(n)' /\ cAction'[n] = "ACTIVATE" /\ cFcgiVersion'[n] = x
    BY <1>3, <2>1, <2>3, <2>4, CoveredStays
  <2>5. Covered(htaccess.route) => Covered(htaccess.route)'
    BY <1>1, <2>4 DEF Covered
  <2>6. \A n \in Managers : Covered(before[n].route) => Covered(before[n].route)'
    BY <1>3, <2>4 DEF Covered
  <2> QED BY <1>1, <1>3, <2>1, <2>2, <2>5, <2>6 DEF SitePart, CalmInv, Plain
<1>9. SitePart'
  BY <1>1, <1>4, <1>5, <1>6, <1>7, <1>8, GoesOn DEF Working
<1>10. CallPart'
  BY <1>1, <1>4, CallsGoOn DEF Early, Working
<1> QED BY <1>9, <1>10

\* AllMarked and Save, which leave the site to the next step.
LEMMA AllMarkedKeeps == ASSUME IInv, NEW m \in Managers, AllMarked(m) PROVE IInv'
<1> USE InvParts
<1> DEFINE p == IF cAction[m] = "KILL" THEN "save" ELSE "open"
<1>1. /\ mpc[m] = "mark" /\ todo[m] = {} /\ Active(m) /\ p \in Working
      /\ mpc' = [mpc EXCEPT ![m] = p]
      /\ UNCHANGED <<platform, site, workers, command, cConfigFinal, todo, calling, killed, crashes>>
  BY DEF AllMarked, Goes, Active, Working
<1>2. UNCHANGED <<cAction, cFcgiVersion, alone, before, last, marker, htaccess>>
  BY <1>1 DEF command, site
<1>3. mpc'[m] = p
  BY <1>1 DEF SitePart, CommandType
<1>4. p \in {"save", "open"} /\ (p = "save" <=> cAction[m] = "KILL")
  OBVIOUS
<1> HIDE DEF p
<1>5. SiteType' /\ cConfigFinal' \in [Managers -> Config] /\ todo' \in [Managers -> SUBSET Versions]
  BY <1>1, <1>2 DEF SitePart, SiteType, CommandType
<1>6. ASSUME m = last, alone[m] PROVE MarkedBy(m)' /\ ConfiguredBy(m)'
  <2>1. MarkedBy(m) /\ ConfiguredBy(m)
    BY <1>1, <1>6, Running
  <2>2. Targets(m)' = Targets(m) /\ ~Enabled(m)'
    BY <1>2, <1>3, <1>4 DEF Targets, Enabled
  <2>3. MarkedBy(m)'
    BY <1>1, <1>2, <1>3, <1>4, <2>1, <2>2 DEF MarkedBy
  <2>4. Final(m)' = Final(m) /\ ~Waiting(m)' /\ Early(m)
    BY <1>1, <1>2, <1>3, <1>4 DEF Final, Waiting, Early
  <2>5. ConfiguredBy(m)'
    BY <1>1, <1>2, <1>3, <1>4, <2>1, <2>4 DEF ConfiguredBy
  <2> QED BY <2>3, <2>5
<1>7. CalmInv'
  BY <1>1, <1>2, PlaceOnly, Running
<1>8. SitePart'
  BY <1>1, <1>4, <1>5, <1>6, <1>7, GoesOn
<1>9. CallPart'
  BY <1>1, <1>4, CallsGoOn DEF Early
<1> QED BY <1>8, <1>9

LEMMA SaveKeeps == ASSUME IInv, NEW m \in Managers, Save(m) PROVE IInv'
<1> USE InvParts
<1>1. /\ mpc[m] = "save" /\ Active(m) /\ "open" \in Working
      /\ mpc' = [mpc EXCEPT ![m] = "open"]
      /\ cConfigFinal' = [cConfigFinal EXCEPT ![m] = htaccess]
      /\ UNCHANGED <<platform, site, workers, command, todo, calling, killed, crashes>>
  BY DEF Save, Goes, Active, Working
<1>2. UNCHANGED <<cAction, cFcgiVersion, alone, before, last, marker, htaccess>>
  BY <1>1 DEF command, site
<1>3. mpc'[m] = "open" /\ cAction[m] = "KILL"
  BY <1>1 DEF SitePart, CommandType, ActionInv, Working
<1>4. SiteType' /\ cConfigFinal' \in [Managers -> Config] /\ todo' \in [Managers -> SUBSET Versions]
      /\ cConfigFinal'[m] = htaccess
  BY <1>1, <1>2 DEF SitePart, SiteType, CommandType
<1>5. ASSUME m = last, alone[m] PROVE MarkedBy(m)' /\ ConfiguredBy(m)'
  <2>1. MarkedBy(m) /\ ConfiguredBy(m)
    BY <1>1, <1>5, Running
  <2>2. Targets(m)' = Targets(m) /\ ~Enabled(m)' /\ ~Enabled(m)
    BY <1>1, <1>2, <1>3 DEF Targets, Enabled
  <2>3. MarkedBy(m)'
    BY <1>1, <1>2, <1>3, <2>1, <2>2 DEF MarkedBy
  <2>4. Final(m)' = before[m] /\ ~Waiting(m)' /\ Early(m)
    BY <1>1, <1>2, <1>3 DEF Final, Waiting, Early
  <2>5. ConfiguredBy(m)'
    BY <1>1, <1>2, <1>3, <1>4, <2>1, <2>4 DEF ConfiguredBy
  <2> QED BY <2>3, <2>5
<1>6. CalmInv'
  BY <1>1, <1>2, PlaceOnly, Running
<1>7. SitePart'
  BY <1>1, <1>4, <1>5, <1>6, GoesOn
<1>8. CallPart'
  BY <1>1, CallsGoOn DEF Early
<1> QED BY <1>7, <1>8

\* The file is empty for a moment.
LEMMA OpenKeeps == ASSUME IInv, NEW m \in Managers, Open(m) PROVE IInv'
<1> USE InvParts
<1> DEFINE p == IF mpc[m] = "open" THEN "write" ELSE "rewrite"
<1>1. /\ mpc[m] \in {"open", "reopen"} /\ Active(m) /\ p \in Working
      /\ mpc' = [mpc EXCEPT ![m] = p]
      /\ htaccess' = Empty
      /\ UNCHANGED <<platform, marker, workers, command, cConfigFinal, todo, calling, killed, crashes>>
  BY DEF Open, Goes, Active, Working
<1>2. UNCHANGED <<cAction, cFcgiVersion, alone, before, last>>
  BY <1>1 DEF command
<1>3. mpc'[m] = p
  BY <1>1 DEF SitePart, CommandType
<1>4. p \in {"write", "rewrite"} /\ (p = "rewrite" <=> mpc[m] = "reopen")
  BY <1>1
<1> HIDE DEF p
<1>5. SiteType' /\ cConfigFinal' \in [Managers -> Config] /\ todo' \in [Managers -> SUBSET Versions]
  BY <1>1, ConfigTypes DEF SitePart, SiteType, CommandType
<1>6. ASSUME m = last, alone[m] PROVE MarkedBy(m)' /\ ConfiguredBy(m)'
  <2>1. MarkedBy(m) /\ ConfiguredBy(m)
    BY <1>1, <1>6, Running
  <2>2. Targets(m)' = Targets(m) /\ (Enabled(m)' <=> Enabled(m))
    BY <1>1, <1>2, <1>3, <1>4 DEF Targets, Enabled
  <2>3. MarkedBy(m)'
    BY <1>1, <1>2, <1>3, <1>4, <2>1, <2>2 DEF MarkedBy
  <2>4. Final(m)' = Final(m) /\ ~Waiting(m)' /\ ~Early(m)'
    BY <1>2, <1>3, <1>4 DEF Final, Waiting, Early
  <2>5. ConfiguredBy(m)'
    BY <1>1, <1>2, <1>3, <1>4, <2>1, <2>4 DEF ConfiguredBy
  <2> QED BY <2>3, <2>5
<1>7. Covered(htaccess'.route)
  BY <1>1, ManagerAssumption DEF Covered, Empty, To
<1>8. CalmInv'
  BY <1>1, <1>2, <1>7, PlaceOnly
<1>9. SitePart'
  BY <1>1, <1>4, <1>5, <1>6, <1>8, GoesOn
<1>10. CallPart'
  BY <1>1, <1>4, CallsGoOn DEF Early
<1> QED BY <1>9, <1>10

\* The configuration to wait with leads to the version of ACTIVATE, or to none.
LEMMA WriteKeeps == ASSUME IInv, NEW m \in Managers, Write(m) PROVE IInv'
<1> USE InvParts
<1>1. /\ mpc[m] = "write" /\ Active(m) /\ "list" \in Working
      /\ mpc' = [mpc EXCEPT ![m] = "list"]
      /\ htaccess' = Detour(m)
      /\ UNCHANGED <<platform, marker, workers, command, cConfigFinal, todo, calling, killed, crashes>>
  BY DEF Write, Goes, Active, Working
<1>2. UNCHANGED <<cAction, cFcgiVersion, alone, before, last>>
  BY <1>1 DEF command
<1>3. mpc'[m] = "list"
  BY <1>1 DEF SitePart, CommandType
<1>4. SiteType' /\ cConfigFinal' \in [Managers -> Config] /\ todo' \in [Managers -> SUBSET Versions]
  BY <1>1, ConfigTypes DEF SitePart, SiteType, CommandType
<1>5. ASSUME m = last, alone[m] PROVE MarkedBy(m) /\ MarkedBy(m)' /\ ConfiguredBy(m)'
  <2>1. MarkedBy(m) /\ ConfiguredBy(m)
    BY <1>1, <1>5, Running
  <2>2. Targets(m)' = Targets(m) /\ ~Enabled(m)' /\ ~Enabled(m)
    BY <1>1, <1>2, <1>3 DEF Targets, Enabled
  <2>3. MarkedBy(m)'
    BY <1>1, <1>2, <1>3, <2>1, <2>2 DEF MarkedBy
  <2>4. Final(m)' = Final(m) /\ ~Early(m)' /\ Detour(m)' = Detour(m)
    BY <1>2, <1>3 DEF Final, Early, Detour
  <2>5. ConfiguredBy(m)'
    BY <1>1, <1>2, <1>3, <2>1, <2>4 DEF ConfiguredBy
  <2> QED BY <2>1, <2>3, <2>5
<1>6. m = last /\ alone[m] => Covered(htaccess'.route)
  <2>1. SUFFICES ASSUME m = last, alone[m], Detour(m).route \in Versions,
                        NEW u \in Installed \ marker
                 PROVE  u = Detour(m).route
    BY <1>1 DEF Covered
  <2>2. cAction[m] = "ACTIVATE" /\ Detour(m).route = cFcgiVersion[m]
    BY <1>1, <2>1, Running, ManagerAssumption DEF Detour, To, Actions
  <2>3. Installed \ {cFcgiVersion[m]} \subseteq marker
    BY <1>1, <1>5, <2>1, <2>2 DEF MarkedBy, Targets, Enabled
  <2> QED BY <2>2, <2>3
<1>7. CalmInv'
  BY <1>1, <1>2, <1>6, PlaceOnly
<1>8. SitePart'
  BY <1>1, <1>4, <1>5, <1>7, GoesOn
<1>9. CallPart'
  BY <1>1, CallsGoOn
<1> QED BY <1>8, <1>9

\* A manager goes on while its other configuration is in force, and the site stays.
LEMMA WaitsOn ==
    ASSUME SitePart, NEW m \in Managers, Active(m), Waiting(m),
           NEW p \in Working, mpc' = [mpc EXCEPT ![m] = p],
           p \in {"wake", "reopen"} \/ (p = "unmark" /\ cAction[m] = "KILL"),
           p = "reopen" => cAction[m] # "KILL",
           mpc[m] \in {"list", "wake"},
           UNCHANGED <<platform, site, command, cConfigFinal, todo, killed, crashes>>
    PROVE  SitePart'
<1>1. UNCHANGED <<cAction, cFcgiVersion, alone, before, last, marker, htaccess>>
  BY DEF command, site
<1>2. mpc'[m] = p
  BY DEF SitePart, CommandType
<1>3. SiteType' /\ cConfigFinal' \in [Managers -> Config] /\ todo' \in [Managers -> SUBSET Versions]
  BY <1>1 DEF SitePart, SiteType, CommandType
<1>4. ASSUME m = last, alone[m] PROVE MarkedBy(m)' /\ ConfiguredBy(m)'
  <2>1. MarkedBy(m) /\ ConfiguredBy(m)
    BY <1>4, Running
  <2>2. Targets(m)' = Targets(m) /\ ~Enabled(m)' /\ ~Enabled(m)
    BY <1>1, <1>2 DEF Targets, Enabled
  <2>3. MarkedBy(m)'
    BY <1>1, <1>2, <2>1, <2>2 DEF MarkedBy
  <2>4. Final(m)' = Final(m) /\ Detour(m)' = Detour(m) /\ ~Early(m)'
    BY <1>1, <1>2 DEF Final, Detour, Early
  <2>5. ConfiguredBy(m)'
    BY <1>1, <1>2, <2>1, <2>4 DEF ConfiguredBy
  <2> QED BY <2>3, <2>5
<1>5. CalmInv'
  BY <1>1, PlaceOnly, Running
<1>6. p = "save" => cAction[m] = "KILL"
  OBVIOUS
<1>7. p = "unmark" => cAction[m] # "DOWN"
  OBVIOUS
<1> QED BY <1>3, <1>4, <1>5, <1>6, <1>7, GoesOn

\* One call for each process that is to be ended: as many as there are.
LEMMA ListKeeps == ASSUME IInv, NEW m \in Managers, List(m) PROVE IInv'
<1> USE InvParts DEF CallPart
<1>1. /\ mpc[m] = "list" /\ Active(m) /\ "wake" \in Working
      /\ mpc' = [mpc EXCEPT ![m] = "wake"]
      /\ \/ /\ gets' = [gets EXCEPT ![m] = {<<w, ver[w]>> : w \in Doomed(m)}]
            /\ asleep' = [asleep EXCEPT ![m] = {w \in Doomed(m) : wpc[w] = "idle"}]
         \/ UNCHANGED <<gets, asleep>>
      /\ UNCHANGED <<platform, site, workers, command, cConfigFinal, todo, getting, killed, crashes>>
  BY DEF List, Goes, Active, Working
<1>2. UNCHANGED <<cAction, cFcgiVersion, ver, wpc>>
  BY <1>1 DEF command, workers
<1>3. SitePart'
  BY <1>1, WaitsOn DEF Waiting
<1>4. Calm' => Calm /\ \A n \in Managers : n # m => mpc'[n] # "wake"
  <2>1. /\ Calm' => Calm
        /\ \A n \in Managers : n # m => mpc'[n] = mpc[n]
    BY <1>1, CalmGoesOn
  <2>2. Calm => \A n \in Managers : n # m => ~Active(n)
    BY <1>1, Running
  <2> QED BY <2>1, <2>2 DEF Active, Working
<1>5. WorkerType'
  BY <1>2 DEF WorkerType
<1>6. CallType'
  <2>1. {<<w, ver[w]>> : w \in Doomed(m)} \subseteq Workers \X Installed
    BY DEF Doomed, WorkerType
  <2>2. {w \in Doomed(m) : wpc[w] = "idle"} \subseteq Workers
    BY DEF Doomed
  <2> QED BY <1>1, <2>1, <2>2 DEF CallType
<1>7. /\ mpc'[m] = "wake"
      /\ \A n \in Managers : n # m => mpc'[n] = mpc[n] /\ asleep'[n] = asleep[n] /\ (Early(n)' <=> Early(n))
  BY <1>1, <1>2 DEF SitePart, CommandType, CallType, Early
<1>8. ASSUME Calm', NEW w \in asleep'[m]
      PROVE  ToEnd(m, ver[w])' /\ ExistsInjection(Servable(ver[w])', Calls(m, ver[w])')
  <2>1. asleep[m] = {}
    BY <1>1 DEF CallInv
  <2>2. /\ gets'[m] = {<<x, ver[x]>> : x \in Doomed(m)}
        /\ w \in Doomed(m)
    BY <1>1, <1>8, <2>1 DEF CallType
  <2>3. PICK v : v = ver[w] /\ v = ver'[w]
    BY <1>2
  <2>4. ToEnd(m, v) /\ ToEnd(m, v)' /\ v # None
    BY <1>2, <2>2, <2>3 DEF Doomed, ToEnd
  <2> DEFINE f == [x \in Servable(v) |-> <<x, v>>]
  <2>5. Servable(v)' = Servable(v) /\ Servable(v) \subseteq Doomed(m)
    BY <1>2, <2>4 DEF Servable, Doomed
  <2>6. \A x \in Servable(v) : <<x, v>> \in Calls(m, v)'
    BY <2>2, <2>5 DEF Servable, Calls
  <2>7. f \in [Servable(v) -> Calls(m, v)'] /\ \A x, y \in Servable(v) : f[x] = f[y] => x = y
    BY <2>6
  <2>8. f \in Injection(Servable(v)', Calls(m, v)')
    BY <2>5, <2>7 DEF Injection, IsInjective
  <2>9. ExistsInjection(Servable(v)', Calls(m, v)')
    BY <2>8 DEF ExistsInjection
  <2> QED BY <2>3, <2>4, <2>9
<1>9. \A n \in Managers, w \in Workers : w \in asleep'[n] => wpc'[w] = "idle"
  <2>1. \A w \in asleep'[m] : w \in asleep[m] \/ wpc[w] = "idle"
    BY <1>1 DEF CallType
  <2> QED BY <1>2, <1>7, <2>1 DEF CallInv, CallType
<1>10. ASSUME NEW n \in Managers, Early(n)' \/ mpc'[n] \in {"new", "write", "list"} PROVE asleep'[n] = {}
  BY <1>7, <1>10 DEF CallInv, Early
<1>11. ASSUME Calm', NEW n \in Managers PROVE mpc'[n] \in {"unmark", "reopen"} => asleep'[n] = {}
  BY <1>4, <1>7, <1>11 DEF CallInv
<1>12. ASSUME Calm', NEW n \in Managers, mpc'[n] = "wake", NEW w \in asleep'[n]
       PROVE  ToEnd(n, ver[w])' /\ ExistsInjection(Servable(ver[w])', Calls(n, ver[w])')
  BY <1>4, <1>8, <1>12
<1>13. CallInv'
  BY <1>9, <1>10, <1>11, <1>12 DEF CallInv
<1> QED BY <1>3, <1>5, <1>6, <1>13

\* A call takes one worker for one call, as long as one of the version is idle.
LEMMA GetKeeps == ASSUME IInv, NEW m \in Managers, Get(m) PROVE IInv'
<1> USE InvParts DEF CallPart
<1>1. /\ mpc[m] = "wake" /\ Active(m)
      /\ UNCHANGED <<platform, site, mpc, command, cConfigFinal, todo, killed, crashes>>
  BY DEF Get, Active, Working
<1>2. PICK g \in gets[m], w \in Workers :
          /\ Given(g[2], w)
          /\ gets' = [gets EXCEPT ![m] = @ \ {g}]
          /\ getting' = [getting EXCEPT ![m] = w]
  BY DEF Get
<1>3. SitePart' /\ (Calm' <=> Calm) /\ UNCHANGED <<cAction, cFcgiVersion>>
  BY <1>1, SiteStays DEF command
<1> DEFINE u == g[2]
<1>4. /\ WorkerType' /\ asleep' \in [Managers -> SUBSET Workers]
      /\ \A n \in Managers : asleep'[n] \subseteq asleep[n]
      /\ \A n \in Managers, x \in Workers : x \in asleep'[n] => wpc'[x] = "idle"
      /\ \A x \in Workers : x # w => ver'[x] = ver[x] /\ wpc'[x] = wpc[x]
      /\ ver'[w] = u /\ wpc'[w] = "taken"
      /\ \/ ver[w] = u /\ wpc[w] = "idle"
         \/ ver[w] = None /\ \A x \in Workers : ~(ver[x] = u /\ wpc[x] = "idle")
  BY <1>2, GivenKeeps
<1>5. CallType'
  BY <1>2, <1>4 DEF CallType
<1>6. ASSUME Calm', NEW n \in Managers, mpc'[n] = "wake", NEW x \in asleep'[n]
      PROVE  ToEnd(n, ver[x])' /\ ExistsInjection(Servable(ver[x])', Calls(n, ver[x])')
  <2>1. n = m /\ Calm
    BY <1>1, <1>3, <1>6, Running DEF Active, Working
  <2>2. x \in asleep[m] /\ x \in Workers /\ x # w /\ ver'[x] = ver[x] /\ wpc[x] = "idle"
    BY <1>4, <1>6, <2>1 DEF CallInv, CallType
  <2>3. PICK v : v = ver[x] /\ v = ver'[x]
    BY <2>2
  <2>4. ToEnd(m, v) /\ ExistsInjection(Servable(v), Calls(m, v))
    BY <1>1, <2>1, <2>2, <2>3 DEF CallInv
  <2>5. ToEnd(m, v)'
    BY <1>3, <2>4 DEF ToEnd
  <2>6. gets'[m] = gets[m] \ {g}
    BY <1>2 DEF CallType
  <2>7. CASE u = v
    <3>1. ver[w] = v /\ wpc[w] = "idle"
      BY <1>4, <2>2, <2>3, <2>7
    <3>2. w \in Servable(v) /\ g \in Calls(m, v)
      BY <1>2, <2>7, <3>1 DEF Servable, Calls
    <3>3. Servable(v)' = Servable(v) \ {w}
      BY <1>4, <3>1 DEF Servable
    <3>4. Calls(m, v)' = Calls(m, v) \ {g}
      BY <2>6 DEF Calls
    <3>5. ExistsInjection(Servable(v) \ {w}, Calls(m, v) \ {g})
      BY <2>4, <3>2, InjectionLess
    <3> QED BY <2>1, <2>3, <2>5, <3>3, <3>4, <3>5
  <2>8. CASE u # v
    <3>1. Servable(v)' \in SUBSET Servable(v)
      BY <1>4, <2>8 DEF Servable
    <3>2. Calls(m, v)' = Calls(m, v)
      BY <2>6, <2>8 DEF Calls
    <3>3. ExistsInjection(Servable(v)', Calls(m, v))
      BY <2>4, <3>1, InjectionSub
    <3> QED BY <2>1, <2>3, <2>5, <3>2, <3>3
  <2> QED BY <2>7, <2>8
<1>7. ASSUME NEW n \in Managers PROVE
         /\ Early(n)' \/ mpc'[n] \in {"new", "write", "list"} => asleep'[n] = {}
         /\ Calm' /\ mpc'[n] \in {"unmark", "reopen"} => asleep'[n] = {}
  <2>1. mpc' = mpc /\ (Early(n)' <=> Early(n))
    BY <1>1, <1>3 DEF Early
  <2>2. asleep[n] = {} => asleep'[n] = {}
    BY <1>4
  <2> QED BY <1>3, <2>1, <2>2 DEF CallInv
<1>8. \A n \in Managers, x \in Workers : x \in asleep'[n] => wpc'[x] = "idle"
  BY <1>4
<1>9. CallInv'
  BY <1>6, <1>7, <1>8 DEF CallInv
<1> QED BY <1>3, <1>4, <1>5, <1>9

\* After a call that did not get through there is no one to be waited for.
LEMMA GetFailsKeeps == ASSUME IInv, NEW m \in Managers, GetFails(m) PROVE IInv'
<1> USE InvParts DEF CallPart
<1>1. /\ mpc[m] = "wake" /\ Active(m)
      /\ UNCHANGED <<platform, site, workers, mpc, command, cConfigFinal, todo, getting, killed, crashes>>
      /\ \E g \in gets[m] : gets' = [gets EXCEPT ![m] = @ \ {g}]
      /\ asleep' = [asleep EXCEPT ![m] = {}]
  BY DEF GetFails, Active, Working
<1>2. SitePart' /\ (Calm' <=> Calm)
  BY <1>1, SiteStays
<1>3. UNCHANGED <<mpc, cAction, cFcgiVersion, ver, wpc>>
  BY <1>1 DEF command, workers
<1>4. WorkerType' /\ CallType'
  BY <1>1, <1>3 DEF WorkerType, CallType
<1>5. asleep'[m] = {} /\ \A n \in Managers : n # m => asleep'[n] = asleep[n]
  BY <1>1 DEF CallType
<1>6. ASSUME Calm', NEW n \in Managers, mpc'[n] = "wake" PROVE asleep'[n] = {}
  BY <1>1, <1>2, <1>3, <1>5, <1>6, Running DEF Active, Working
<1>7. \A n \in Managers : Early(n)' <=> Early(n)
  BY <1>3 DEF Early
<1>8. ASSUME NEW n \in Managers PROVE
         /\ Early(n)' \/ mpc'[n] \in {"new", "write", "list"} => asleep'[n] = {}
         /\ Calm' /\ mpc'[n] \in {"unmark", "reopen"} => asleep'[n] = {}
  BY <1>2, <1>3, <1>5, <1>7 DEF CallInv
<1>9. \A n \in Managers, w \in Workers : w \in asleep'[n] => wpc'[w] = "idle"
  BY <1>3, <1>5 DEF CallInv
<1>10. CallInv'
  BY <1>6, <1>8, <1>9 DEF CallInv
<1> QED BY <1>2, <1>4, <1>10

\* When no call is left no one of those waited for is.
LEMMA WokenKeeps == ASSUME IInv, NEW m \in Managers, Woken(m) PROVE IInv'
<1> USE InvParts
<1> DEFINE p == IF cAction[m] = "KILL" THEN "unmark" ELSE "reopen"
<1>1. /\ mpc[m] = "wake" /\ Active(m) /\ p \in Working /\ gets[m] = {}
      /\ mpc' = [mpc EXCEPT ![m] = p]
      /\ UNCHANGED <<platform, site, workers, command, cConfigFinal, todo, calling, killed, crashes>>
  BY DEF Woken, Goes, Active, Working
<1>2. p \in {"unmark", "reopen"} /\ (p = "unmark" <=> cAction[m] = "KILL")
  OBVIOUS
<1> HIDE DEF p
<1>3. SitePart'
  BY <1>1, <1>2, WaitsOn DEF Waiting
<1>4. ASSUME Calm, NEW w \in asleep[m] PROVE FALSE
  <2>1. w \in Workers /\ wpc[w] = "idle"
    BY <1>4 DEF CallPart, CallType, CallInv
  <2>2. ExistsInjection(Servable(ver[w]), Calls(m, ver[w]))
    BY <1>1, <1>4 DEF CallPart, CallInv
  <2>3. Calls(m, ver[w]) = {}
    BY <1>1 DEF Calls
  <2>4. w \in Servable(ver[w])
    BY <2>1 DEF Servable
  <2> QED BY <2>2, <2>3, <2>4, InjectionNone
<1>5. CallPart'
  BY <1>1, <1>2, <1>4, CallsGoOn
<1> QED BY <1>3, <1>5

\* KILL leaves a version without a marker that it enables, ACTIVATE the one it activates.
LEMMA UnmarkKeeps == ASSUME IInv, NEW m \in Managers, Unmark(m) PROVE IInv'
<1> USE InvParts
<1> DEFINE p == IF cAction[m] = "KILL" THEN "reopen" ELSE "mark"
           v == cFcgiVersion[m]
<1>1. /\ mpc[m] = "unmark" /\ Active(m) /\ p \in Working
      /\ mpc' = [mpc EXCEPT ![m] = p]
      /\ marker' = marker \ {v}
      /\ killed' = IF cAction[m] = "KILL" THEN killed \cup {v} ELSE killed
      /\ UNCHANGED <<platform, htaccess, workers, command, cConfigFinal, todo, calling, crashes>>
  BY DEF Unmark, Goes, Active, Working
<1>2. UNCHANGED <<cAction, cFcgiVersion, alone, before, last>>
  BY <1>1 DEF command
<1>3. mpc'[m] = p /\ cAction[m] \in {"KILL", "ACTIVATE"} /\ v \in Versions
  BY <1>1, Running DEF SitePart, CommandType, ActionInv, Actions, Working
<1>4. p \in {"reopen", "mark"} /\ (p = "reopen" <=> cAction[m] = "KILL")
  OBVIOUS
<1> HIDE DEF p
<1>5. SiteType' /\ cConfigFinal' \in [Managers -> Config] /\ todo' \in [Managers -> SUBSET Versions]
  BY <1>1, <1>3 DEF SitePart, SiteType, CommandType
<1>6. ASSUME m = last, alone[m] PROVE MarkedBy(m)' /\ ConfiguredBy(m)'
  <2>1. MarkedBy(m) /\ ConfiguredBy(m)
    BY <1>1, <1>6, Running
  <2>2. Targets(m)' = Targets(m) /\ Final(m)' = Final(m) /\ Detour(m)' = Detour(m)
    BY <1>2 DEF Targets, Final, Detour
  <2>3. CASE cAction[m] = "KILL"
    <3>1. MarkedBy(m)'
      BY <1>1, <1>2, <1>3, <1>4, <2>1, <2>2, <2>3 DEF MarkedBy, Enabled
    <3>2. ConfiguredBy(m)'
      BY <1>1, <1>2, <1>3, <1>4, <2>1, <2>2, <2>3 DEF ConfiguredBy, Early, Waiting
    <3> QED BY <3>1, <3>2
  <2>4. CASE cAction[m] = "ACTIVATE"
    <3>1. v \notin Targets(m) /\ todo'[m] = todo[m]
      BY <1>1, <2>4 DEF Targets
    <3>2. Targets(m) \subseteq marker' \cup todo[m]
      BY <1>1, <2>1, <2>4, <3>1 DEF MarkedBy
    <3>3. MarkedBy(m)'
      BY <1>1, <1>2, <1>3, <1>4, <2>1, <2>2, <2>4, <3>1, <3>2 DEF MarkedBy, Enabled
    <3>4. ConfiguredBy(m)'
      BY <1>1, <1>2, <1>3, <1>4, <2>1, <2>2, <2>4 DEF ConfiguredBy, Early, Waiting
    <3> QED BY <3>3, <3>4
  <2> QED BY <1>3, <2>3, <2>4
<1>7. CalmInv'
  <2>1. SUFFICES ASSUME Calm'
                 PROVE  /\ Covered(htaccess.route)'
                        /\ Active(m)' /\ \A n \in Managers : Active(n)' => n = m
                        /\ Plain(before[m])'
                        /\ cAction'[m] = "KILL" => Covered(before[m].route)'
    BY <1>2 DEF CalmInv
  <2>2. /\ Calm /\ Active(m)' /\ \A n \in Managers : Active(n)' => n = m
        /\ mpc'[m] = p /\ \A n \in Managers : n # m => mpc'[n] = mpc[n]
    BY <1>1, <2>1, CalmGoesOn
  <2>3. /\ m = last /\ alone[m] /\ Plain(before[m]) /\ Covered(htaccess.route)
        /\ cAction[m] = "KILL" => Covered(before[m].route)
    BY <1>1, <2>2, Running
  <2>4. \A n \in Managers : Active(n) => Active(n)'
    BY <2>2 DEF Active
  <2>5. ASSUME NEW r, Covered(r), r \in Versions, NEW u \in Installed \ marker'
        PROVE  \/ u \in {r} \cup killed'
               \/ \E n \in Managers : Active(n)' /\ cAction'[n] = "ACTIVATE" /\ cFcgiVersion'[n] = u
    <3>1. CASE u = v
      BY <1>1, <1>2, <1>3, <2>2, <3>1
    <3>2. CASE u # v
      <4>1. u \in Installed \ marker
        BY <1>1, <2>5, <3>2
      <4>2. u \in {r} \cup killed
            \/ \E n \in Managers : Active(n) /\ cAction[n] = "ACTIVATE" /\ cFcgiVersion[n] = u
        BY <2>5, <4>1 DEF Covered
      <4> QED BY <1>1, <1>2, <2>4, <4>2
    <3> QED BY <3>1, <3>2
  <2>6. Covered(htaccess.route)'
    BY <1>1, <2>3, <2>5 DEF Covered
  <2>7. cAction'[m] = "KILL" => Covered(before[m].route)'
    BY <1>2, <2>3, <2>5 DEF Covered
  <2> QED BY <1>2, <2>2, <2>3, <2>6, <2>7 DEF Plain
<1>8. SitePart'
  BY <1>1, <1>4, <1>5, <1>6, <1>7, GoesOn
<1>9. Calm /\ p = "reopen" => asleep[m] = {}
  BY <1>1 DEF CallPart, CallInv
<1>10. p = "mark" => Early(m)
  BY <1>1, <1>3, <1>4 DEF Early
<1>11. CallPart'
  BY <1>1, <1>4, <1>9, <1>10, CallsGoOn
<1> QED BY <1>8, <1>11

\* The command is done: the site leads to one version, or to none.
LEMMA RewriteKeeps == ASSUME IInv, NEW m \in Managers, Rewrite(m) PROVE IInv'
<1> USE InvParts
<1>1. /\ mpc[m] = "rewrite" /\ Active(m)
      /\ mpc' = [mpc EXCEPT ![m] = "done"]
      /\ htaccess' = cConfigFinal[m]
      /\ UNCHANGED <<platform, marker, workers, command, cConfigFinal, todo, calling, killed, crashes>>
  BY DEF Rewrite, Goes, Active, Working
<1>2. UNCHANGED <<cAction, cFcgiVersion, alone, before, last>>
  BY <1>1 DEF command
<1>3. mpc'[m] = "done"
  BY <1>1 DEF SitePart, CommandType
<1>4. SiteType' /\ cConfigFinal' \in [Managers -> Config] /\ todo' \in [Managers -> SUBSET Versions]
  BY <1>1 DEF SitePart, SiteType, CommandType
<1>5. ASSUME m = last, alone[m]
      PROVE  MarkedBy(m) /\ MarkedBy(m)' /\ ConfiguredBy(m)' /\ htaccess' = Final(m)
  <2>1. MarkedBy(m) /\ ConfiguredBy(m)
    BY <1>1, <1>5, Running
  <2>2. Targets(m)' = Targets(m) /\ (Enabled(m)' <=> Enabled(m)) /\ Final(m)' = Final(m)
    BY <1>1, <1>2, <1>3 DEF Targets, Enabled, Final
  <2>3. MarkedBy(m)'
    BY <1>1, <1>2, <1>3, <2>1, <2>2 DEF MarkedBy
  <2>4. cConfigFinal[m] = Final(m)
    BY <1>1, <2>1 DEF ConfiguredBy
  <2>5. ConfiguredBy(m)'
    BY <1>1, <1>3, <2>2, <2>4 DEF ConfiguredBy, Early, Waiting
  <2> QED BY <1>1, <2>1, <2>3, <2>4, <2>5
<1>6. CalmInv'
  <2>1. SUFFICES ASSUME Calm'
                 PROVE  /\ Covered(htaccess.route)' /\ Plain(htaccess)'
                        /\ \A n \in Managers : ~Active(n)'
    BY DEF CalmInv
  <2>2. Calm /\ \A n \in Managers : ~Active(n)'
    BY <1>1, <2>1, CalmGoesOn DEF Working
  <2>3. /\ m = last /\ alone[m] /\ Plain(before[m])
        /\ \A n \in Managers : Active(n) => n = m
        /\ cAction[m] \in Actions
        /\ cAction[m] = "KILL" => Covered(before[m].route)
    BY <1>1, <2>2, Running
  <2>4. htaccess' = Final(m) /\ MarkedBy(m)
    BY <1>5, <2>3
  <2>5. Plain(htaccess)'
    BY <2>3, <2>4 DEF Plain, Final, To, Actions
  <2>6. ASSUME htaccess'.route \in Versions, NEW u \in Installed \ marker'
        PROVE  u \in {htaccess'.route} \cup killed'
    <3>1. CASE cAction[m] = "KILL"
      BY <1>1, <2>3, <2>4, <2>6, <3>1 DEF Covered, Final
    <3>2. CASE cAction[m] = "DOWN"
      BY <2>4, <2>6, <3>2, ManagerAssumption DEF Final, To
    <3>3. CASE cAction[m] = "ACTIVATE"
      BY <1>1, <2>4, <2>6, <3>3 DEF MarkedBy, Enabled, Targets, Final, To
    <3> QED BY <2>3, <3>1, <3>2, <3>3 DEF Actions
  <2>7. Covered(htaccess.route)'
    BY <2>6 DEF Covered
  <2> QED BY <2>2, <2>5, <2>7
<1>7. SitePart'
  BY <1>1, <1>4, <1>5, <1>6, GoesOn
<1>8. CallPart'
  BY <1>1, CallsGoOn
<1> QED BY <1>7, <1>8

\* The end of a manager in the middle is the end of Calm.
LEMMA CrashKeeps == ASSUME IInv, NEW m \in Managers, Crash(m) PROVE IInv'
<1> USE InvParts DEF CallPart
<1>1. /\ Active(m) /\ mpc' = [mpc EXCEPT ![m] = "dead"]
      /\ crashes < MaxCrashes /\ crashes' = crashes + 1
      /\ getting' = [getting EXCEPT ![m] = None]
      /\ UNCHANGED <<platform, site, workers, command, cConfigFinal, todo, gets, asleep, killed>>
  BY DEF Crash, Goes
<1>2. UNCHANGED <<cAction, cFcgiVersion, marker, htaccess, ver, wpc>>
  BY <1>1 DEF command, site, workers
<1>3. crashes' \in 0..MaxCrashes
  BY <1>1, ManagerAssumption DEF SitePart, SiteType
<1>4. SiteType' /\ cConfigFinal' \in [Managers -> Config] /\ todo' \in [Managers -> SUBSET Versions]
  BY <1>1, <1>2, <1>3 DEF SitePart, SiteType, CommandType
<1>5. /\ ~Calm' /\ mpc'[m] = "dead" /\ \A n \in Managers : n # m => mpc'[n] = mpc[n]
  BY <1>1, CalmGoesOn
<1>6. CalmInv'
  BY <1>5 DEF CalmInv
<1>7. SitePart'
  BY <1>1, <1>4, <1>6, GoesOn
<1>8. WorkerType' /\ CallType'
  BY <1>1, <1>2 DEF WorkerType, CallType
<1>9. \A n \in Managers : Early(n)' \/ mpc'[n] \in {"new", "write", "list"}
                          => Early(n) \/ mpc[n] \in {"new", "write", "list"}
  BY <1>2, <1>5 DEF Early
<1>10. CallInv'
  BY <1>1, <1>2, <1>5, <1>9 DEF CallInv
<1> QED BY <1>7, <1>8, <1>10

\* A manager begins: it runs alone if no other does, and those that run no longer do.
LEMMA BeginKeeps ==
    ASSUME IInv, NEW m \in Managers, NEW a \in Actions, NEW v \in Versions \cup {None},
           a = "DOWN" <=> v = None, Begin(m, a, v)
    PROVE  IInv'
<1> USE InvParts DEF CallPart
<1> DEFINE p == IF a = "ACTIVATE" THEN "unmark" ELSE "mark"
<1>1. /\ mpc[m] = "new" /\ mpc' = [mpc EXCEPT ![m] = p]
      /\ cAction' = [cAction EXCEPT ![m] = a]
      /\ cFcgiVersion' = [cFcgiVersion EXCEPT ![m] = v]
      /\ alone' = [n \in Managers |->
                      IF n = m THEN \A x \in Managers : ~Active(x) ELSE alone[n] /\ ~Active(n)]
      /\ before' = [before EXCEPT ![m] = htaccess]
      /\ last' = m
      /\ UNCHANGED <<platform, site, workers, calling, killed, crashes>>
  BY DEF Begin, Goes
<1>2. PICK t : /\ todo' = [todo EXCEPT ![m] = t]
               /\ a = "KILL" => t = {v}
               /\ a = "DOWN" => t = Installed
               /\ a = "ACTIVATE" => t = Installed \ {v}
  BY DEF Begin
<1>3. PICK c : /\ cConfigFinal' = [cConfigFinal EXCEPT ![m] = c]
               /\ a = "KILL" => c = Empty
               /\ a = "DOWN" => c = To("down", {})
               /\ a = "ACTIVATE" => c = To(v, {v})
  BY DEF Begin
<1>4. UNCHANGED <<marker, htaccess, ver, wpc, gets, getting, asleep>>
  BY <1>1 DEF site, workers, calling
<1>5. /\ p \in {"unmark", "mark"} /\ (p = "unmark" <=> a = "ACTIVATE")
      /\ a \in {"KILL", "DOWN", "ACTIVATE"} /\ (a # "DOWN" => v \in Versions)
  BY DEF Actions
<1> HIDE DEF p
<1>6. /\ mpc'[m] = p /\ cAction'[m] = a /\ cFcgiVersion'[m] = v /\ before'[m] = htaccess
      /\ todo'[m] = t /\ cConfigFinal'[m] = c
      /\ \A n \in Managers : n # m =>
            /\ mpc'[n] = mpc[n] /\ cAction'[n] = cAction[n] /\ cFcgiVersion'[n] = cFcgiVersion[n]
            /\ before'[n] = before[n]
  BY <1>1, <1>2, <1>3 DEF SitePart, CommandType
<1>7. /\ alone'[m] <=> \A x \in Managers : ~Active(x)
      /\ \A n \in Managers : n # m => (alone'[n] <=> alone[n] /\ ~Active(n))
      /\ alone' \in [Managers -> BOOLEAN]
  BY <1>1 DEF SitePart, CommandType
<1>8. SiteType'
  BY <1>1, <1>4 DEF SitePart, SiteType
<1>9. CommandType'
  <2>1. t \subseteq Versions
    BY <1>2, <1>5, ManagerAssumption
  <2>2. c \in Config
    <3>1. \A r \in Versions \cup {"down", "none"}, ws \in SUBSET Versions : To(r, ws) \in Config
      BY DEF To, Config
    <3> QED BY <1>3, <1>5, <3>1 DEF Empty
  <2>3. p \in Working
    BY <1>5 DEF Working
  <2>4. htaccess \in Config
    BY DEF SitePart, SiteType
  <2>5. /\ mpc' \in [Managers -> Working \cup {"new", "done", "dead"}]
        /\ cAction' \in [Managers -> Actions \cup {"none"}]
        /\ cFcgiVersion' \in [Managers -> Versions \cup {None}]
    BY <1>1, <2>3 DEF SitePart, CommandType
  <2>6. /\ cConfigFinal' \in [Managers -> Config]
        /\ todo' \in [Managers -> SUBSET Versions]
        /\ before' \in [Managers -> Config]
    BY <1>1, <1>2, <1>3, <2>1, <2>2, <2>4 DEF SitePart, CommandType
  <2> QED BY <1>1, <1>7, <2>5, <2>6 DEF CommandType
<1>10. Active(m)' /\ ~Active(m) /\ \A n \in Managers : n # m => (Active(n)' <=> Active(n))
  BY <1>1, <1>5, <1>6 DEF Active, Working
<1>11. ActionInv'
  BY <1>5, <1>6 DEF SitePart, ActionInv
<1>12. AloneInv'
  <2>1. p # "new"
    BY <1>5
  <2>2. \A n \in Managers : mpc[n] = "new" => ~Active(n)
    BY DEF Active, Working
  <2> QED BY <1>1, <1>6, <1>7, <1>10, <2>1, <2>2 DEF SitePart, AloneInv
<1>13. SiteInv'
  <2>1. Targets(m)' = t
    BY <1>2, <1>5, <1>6 DEF Targets
  <2>2. ~Enabled(m)' /\ ~Waiting(m)'
    BY <1>5, <1>6 DEF Enabled, Waiting
  <2>3. MarkedBy(m)'
    BY <1>5, <1>6, <2>1, <2>2 DEF MarkedBy
  <2>4. a # "KILL" => Final(m)' = c
    BY <1>3, <1>5, <1>6 DEF Final
  <2>5. ConfiguredBy(m)'
    BY <1>4, <1>5, <1>6, <2>2, <2>4 DEF ConfiguredBy
  <2> QED BY <1>1, <2>3, <2>5 DEF SiteInv
<1>14. Calm' => Calm /\ \A n \in Managers : ~Active(n)
  <2>1. ASSUME Calm' PROVE Calm
    <3>1. \A n \in Managers : mpc'[n] # "dead" /\ alone'[n]
      BY <2>1 DEF Calm
    <3>2. alone[m]
      BY <1>1 DEF SitePart, AloneInv
    <3> QED BY <1>1, <1>6, <1>7, <3>1, <3>2 DEF Calm
  <2> QED BY <1>7, <2>1 DEF Calm
<1>15. CalmInv'
  <2>1. SUFFICES ASSUME Calm'
                 PROVE  /\ Covered(htaccess.route)'
                        /\ Active(m)' /\ \A n \in Managers : Active(n)' => n = m
                        /\ Plain(before[m])'
                        /\ Covered(before[m].route)'
    BY DEF CalmInv
  <2>2. /\ Calm /\ (\A n \in Managers : ~Active(n))
        /\ Covered(htaccess.route) /\ Plain(htaccess)
    BY <1>14, <2>1 DEF SitePart, CalmInv
  <2>3. htaccess.route \in Versions => \A u \in Installed \ marker : u \in {htaccess.route} \cup killed
    BY <2>2 DEF Covered
  <2>4. Covered(htaccess.route)' /\ Covered(before[m].route)'
    BY <1>1, <1>4, <1>6, <2>3 DEF Covered
  <2> QED BY <1>4, <1>6, <1>10, <2>2, <2>4 DEF Plain
<1>16. SitePart'
  BY <1>8, <1>9, <1>11, <1>12, <1>13, <1>15 DEF SitePart
<1>17. WorkerType' /\ CallType'
  BY <1>4 DEF WorkerType, CallType
<1>18. \A n \in Managers : n # m => (Early(n)' <=> Early(n))
  BY <1>6 DEF Early
<1>19. asleep[m] = {}
  BY <1>1 DEF CallInv
<1>20. ASSUME NEW n \in Managers, Early(n)' \/ mpc'[n] \in {"new", "write", "list"} PROVE asleep'[n] = {}
  BY <1>4, <1>6, <1>18, <1>19, <1>20 DEF CallInv
<1>21. ASSUME Calm', NEW n \in Managers
       PROVE  mpc'[n] # "wake" /\ (mpc'[n] \in {"unmark", "reopen"} => asleep'[n] = {})
  BY <1>4, <1>5, <1>6, <1>14, <1>19, <1>21 DEF Active, Working
<1>22. CallInv'
  BY <1>4, <1>20, <1>21 DEF CallInv
<1> QED BY <1>16, <1>17, <1>22

-----------------------------------------------------------------------------
LEMMA InitInv == Init => IInv
<1> SUFFICES ASSUME Init PROVE IInv
  OBVIOUS
<1> USE InvParts
<1>1. PICK v \in Installed : /\ htaccess = To(v, {v})
                             /\ marker = Installed \ {v}
                             /\ ver \in [Workers -> {v, None}]
  BY DEF Init
<1>2. v \in Versions /\ v # None
  BY ManagerAssumption
<1>3. \A r \in Versions \cup {"down", "none"}, ws \in SUBSET Versions : To(r, ws) \in Config
  BY DEF To, Config
<1>4. SiteType
  BY <1>1, <1>2, <1>3, ManagerAssumption DEF Init, SiteType
<1>5. WorkerType
  BY <1>1, <1>2 DEF Init, WorkerType
<1>6. CommandType /\ CallType
  BY <1>3 DEF Init, CommandType, CallType, Empty
<1>7. \A m \in Managers : ~Active(m) /\ mpc[m] = "new"
  BY DEF Init, Active, Working
<1>8. ActionInv
  BY <1>7 DEF ActionInv, Working
<1>9. AloneInv /\ SiteInv
  <2>1. last = None /\ \A m \in Managers : alone[m] = TRUE /\ mpc[m] = "new"
    BY DEF Init
  <2>2. \A m \in Managers : m # None
    BY ManagerAssumption
  <2> QED BY <1>7, <2>1, <2>2 DEF AloneInv, SiteInv
<1>10. CalmInv
  BY <1>1, <1>7 DEF CalmInv, Covered, Plain, To
<1>11. CallInv
  BY <1>7 DEF Init, CallInv
<1> QED BY <1>4, <1>5, <1>6, <1>8, <1>9, <1>10, <1>11 DEF SitePart, CallPart

LEMMA NextInv == IInv /\ [Next]_vars => IInv'
<1> SUFFICES ASSUME IInv, [Next]_vars PROVE IInv'
  OBVIOUS
<1>1. CASE UNCHANGED vars
  <2>1. UNCHANGED <<platform, site, workers, mpc, command, cConfigFinal, todo, calling, killed, crashes>>
    BY <1>1 DEF vars
  <2>2. SitePart' /\ (Calm' <=> Calm) /\ UNCHANGED <<mpc, cAction, cFcgiVersion, ver, wpc, gets, getting, asleep>>
    BY <2>1, SiteStays, InvParts DEF command, workers, calling
  <2>3. CallPart'
    BY <2>2, InvParts, CallsStay DEF CallPart, WorkerType, CallType, CallInv, Servable
  <2> QED BY <2>2, <2>3, InvParts
<1>2. CASE \E w \in Workers : Worker(w) \/ Request(w) \/ Idles(w)
  BY <1>2, CheckMarkerKeeps, ServedKeeps, RequestKeeps, IdlesKeeps DEF Worker
<1>3. CASE \E m \in Managers : Manager(m) \/ Crash(m)
  BY <1>3, MarkKeeps, AllMarkedKeeps, SaveKeeps, OpenKeeps, WriteKeeps, ListKeeps, GetKeeps,
     GetFailsKeeps, WokenKeeps, UnmarkKeeps, RewriteKeeps, CrashKeeps DEF Manager
<1>4. CASE \E m \in Managers, a \in Actions, v \in Versions \cup {None} :
              (a = "DOWN" <=> v = None) /\ Begin(m, a, v)
  BY <1>4, BeginKeeps
<1> QED BY <1>1, <1>2, <1>3, <1>4 DEF Next

LEMMA Invariance == Spec => []IInv
  BY InitInv, NextInv, PTL DEF Spec

-----------------------------------------------------------------------------
\* Whatever version a request may reach beside the one the site leads to turns it away,
\* at every step of every command of managers that run one after the other.
THEOREM OneVersionIsReachable == Spec => []OneVersionReachable
<1>1. ASSUME IInv, Calm, NEW u \in htaccess.wrappers \ {htaccess.route}, u \in Installed, u \notin marker
      PROVE  \E m \in Managers : cAction[m] = "KILL" /\ cFcgiVersion[m] = u /\ mpc[m] = "reopen"
  <2> USE InvParts
  <2>1. CASE \A m \in Managers : ~Active(m)
    BY <1>1, <2>1 DEF SitePart, CalmInv, Plain
  <2>2. ASSUME NEW m \in Managers, Active(m)
        PROVE  cAction[m] = "KILL" /\ cFcgiVersion[m] = u /\ mpc[m] = "reopen"
    <3>1. /\ m = last /\ alone[m] /\ Plain(before[m]) /\ cAction[m] \in Actions
          /\ MarkedBy(m) /\ ConfiguredBy(m)
      BY <1>1, <2>2, Running
    <3>2. ~Early(m) /\ mpc[m] \notin {"write", "rewrite"}
      BY <1>1, <3>1 DEF ConfiguredBy, Plain, Empty, To
    <3>3. mpc[m] \in {"list", "wake", "reopen", "unmark"} /\ (mpc[m] = "unmark" => cAction[m] = "KILL")
      BY <1>1, <2>2, <3>1, <3>2 DEF Active, Working, Early, SitePart, ActionInv, Actions
    <3>4. htaccess = Detour(m)
      BY <3>1, <3>3 DEF ConfiguredBy, Waiting
    <3>5. u \in Targets(m)
      BY <1>1, <3>1, <3>4 DEF Detour, Targets, To, Actions
    <3>6. Enabled(m)
      BY <1>1, <3>1, <3>3, <3>5 DEF MarkedBy
    <3> QED BY <3>3, <3>5, <3>6 DEF Enabled, Targets
  <2> QED BY <2>1, <2>2
<1>2. IInv => OneVersionReachable
  BY <1>1 DEF OneVersionReachable, IInv
<1> QED BY <1>2, Invariance, PTL

\* A manager that runs alone leaves the site as it was asked to, whatever those before
\* it have left behind.
THEOREM AloneSuffices == Spec => []AloneIsEnough
<1>1. ASSUME IInv, last # None, mpc[last] = "done", alone[last]
      PROVE  LET v == cFcgiVersion[last] IN
             CASE cAction[last] = "ACTIVATE" -> /\ htaccess = To(v, {v})
                                                /\ marker \cap Installed = Installed \ {v}
                                                /\ v \notin marker
               [] cAction[last] = "DOWN"     -> htaccess = To("down", {}) /\ Installed \subseteq marker
               [] cAction[last] = "KILL"     -> htaccess = before[last] /\ v \notin marker
  <2> USE InvParts
  <2>1. last \in Managers
    BY <1>1 DEF SitePart, CommandType
  <2>2. MarkedBy(last) /\ ConfiguredBy(last) /\ cAction[last] \in Actions
    BY <1>1, <2>1 DEF SitePart, SiteInv, ActionInv
  <2>3. htaccess = Final(last)
    BY <1>1, <2>2 DEF ConfiguredBy
  <2>4. cAction[last] # "KILL" => Targets(last) \subseteq marker
    BY <1>1, <2>2 DEF MarkedBy, Enabled
  <2>5. cAction[last] # "DOWN" => cFcgiVersion[last] \notin marker
    BY <1>1, <2>2 DEF MarkedBy, Enabled, Actions
  <2> QED BY <2>2, <2>3, <2>4, <2>5 DEF Final, Targets, Actions
<1>2. IInv => AloneIsEnough
  BY <1>1 DEF AloneIsEnough
<1> QED BY <1>2, Invariance, PTL

\* A call for each process is enough for all that were idle.
THEOREM IdleProcessesEnd == Spec => []IdleAreEnded
<1>1. IInv => IdleAreEnded
  BY DEF IInv, CallInv, IdleAreEnded
<1> QED BY <1>1, Invariance, PTL

\* No worker begins to serve a request that the site does not lead to its version, and
\* none at all once the site was taken down.
THEOREM NoOldServiceEver == Spec => NoOldService
<1> DEFINE Serves == \A w \in Workers : wpc[w] = "taken" /\ wpc'[w] = "serving" =>
                        /\ Calm /\ htaccess.route \in Versions => Allowed(ver[w])
                        /\ ~TakenDown
<1>1. ASSUME IInv, Next, NEW w \in Workers, wpc[w] = "taken", wpc'[w] = "serving"
      PROVE  /\ Calm /\ htaccess.route \in Versions => Allowed(ver[w])
             /\ ~TakenDown
  <2> USE InvParts
  <2>1. ver[w] \notin marker /\ ver[w] \in Installed
    <3>1. CheckMarker(w)
      <4>1. ASSUME NEW x \in Workers, Request(x) PROVE wpc'[w] # "serving"
        BY <1>1, <4>1 DEF Request, Given, CallPart, WorkerType
      <4>2. ASSUME NEW x \in Workers, CheckMarker(x) PROVE x = w
        BY <1>1, <4>2 DEF CheckMarker, Ends, CallPart, WorkerType
      <4>3. ASSUME NEW x \in Workers, Served(x) \/ Idles(x) PROVE wpc'[w] # "serving"
        BY <1>1, <4>3 DEF Served, Idles, Ends, CallPart, WorkerType
      <4>4. ASSUME NEW m \in Managers, Get(m) PROVE wpc'[w] # "serving"
        BY <1>1, <4>4 DEF Get, Given, CallPart, WorkerType
      <4>5. ASSUME NEW m \in Managers,
                   \/ Mark(m) \/ AllMarked(m) \/ Save(m) \/ Open(m) \/ Write(m) \/ List(m)
                   \/ GetFails(m) \/ Woken(m) \/ Unmark(m) \/ Rewrite(m) \/ Crash(m)
                   \/ \E a \in Actions, v \in Versions \cup {None} : Begin(m, a, v)
            PROVE  wpc' = wpc
        BY <4>5 DEF Mark, AllMarked, Save, Open, Write, List, GetFails, Woken, Unmark, Rewrite, Crash,
           Begin, workers
      <4> QED BY <1>1, <4>1, <4>2, <4>3, <4>4, <4>5 DEF Next, Worker, Manager
    <3> QED BY <1>1, <3>1 DEF CheckMarker, Ends, CallPart, WorkerType
  <2>2. Calm /\ htaccess.route \in Versions => Allowed(ver[w])
    BY <1>1, <2>1 DEF SitePart, CalmInv, Covered, Allowed
  <2>3. ASSUME TakenDown PROVE FALSE
    <3>1. last \in Managers /\ cAction[last] = "DOWN" /\ alone[last] /\ mpc[last] = "done"
      BY <1>1, <2>3 DEF TakenDown, SitePart, CommandType
    <3>2. MarkedBy(last)
      BY <1>1, <3>1 DEF SitePart, SiteInv
    <3> QED BY <2>1, <3>1, <3>2 DEF MarkedBy, Enabled, Targets
  <2> QED BY <2>2, <2>3
<1>2. IInv /\ [Next]_vars => [Serves]_vars
  BY <1>1
<1> QED BY <1>2, Invariance, PTL DEF Spec, NoOldService
=============================================================================
