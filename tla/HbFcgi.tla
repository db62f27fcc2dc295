------------------------------- MODULE HbFcgi -------------------------------
(***************************************************************************)
(* One worker process of a Harbour FastCGI application: the class hb_Fcgi  *)
(* (hb_fcgi.prg), the C glue that holds the pointers FCGX_Accept gave it   *)
(* (hb_fcgi_c.c), and, at the level of their calls, FCGX_Accept and        *)
(* FCGX_Finish (fcgiapp.c).  The main loop is the one of echo.prg:         *)
(*                                                                         *)
(*     do while oFcgi:Wait()                                               *)
(*        if !oFcgi:SkipRequest ; oFcgi:OnRequest() ; endif                *)
(*     enddo                                                               *)
(*                                                                         *)
(* Requests are numbered in the order FCGX_Accept meets them, and a piece  *)
(* of data is represented by the number of the request it came with.       *)
(*                                                                         *)
(* A definition introduced by "Mutant:" is not part of the model: it is    *)
(* what the next one would be with a plausible bug, and shows which        *)
(* property would notice.                                                  *)
(***************************************************************************)
EXTENDS Integers, FiniteSets

CONSTANTS
    N,          \* requests the web server sends in this worker's life
    Lazy,       \* the inputs hb_Fcgi reads at first use and then keeps
    Flows,      \* <<f, s>>: the application reads f and puts it into s
    Limits,     \* values of MaxRequestPerFCGIProcess an administrator sets
    MaxCalls,   \* calls one On... method makes, a bound
    MaxStops    \* calls of ShutDownFastCGIEXEAfterResponse, a bound

Requests == 1..N

\* What the application can read, and where it can put what it has read.
Sources == Lazy \cup {"RequestEnvironment", "aTrace"}
Sinks   == {"OutputBuffer", "ResponseHeader", "ContentType", "aTrace"}
Fields  == Sources \cup Sinks

ASSUME HbFcgiAssumption ==
    /\ N \in Nat
    /\ Lazy \subseteq {"QueryString", "RequestCookies", "Input",
                       "InputLength", "RequestMethod"}
    /\ Flows \subseteq Sources \X Sinks
    /\ Limits \subseteq Nat
    /\ MaxCalls \in Nat
    /\ MaxStops \in Nat

\* ResponseHeader: the entries WriteOutput looks at, and whether some value
\* is not a character string.
Headers == [Status : {"none", "3xx", "other"}, Location : BOOLEAN, bad : BOOLEAN]
NoHeader == [Status |-> "none", Location |-> FALSE, bad |-> FALSE]

Pages == SUBSET {"app", "error", "down"}

Responses == [state : {"pending", "open", "complete", "dropped"},
              heads : 0..2, data : SUBSET Requests, page : Pages]

UserCode == {"first", "handler", "shutdown"}   \* the On... methods
Ended    == {"exited", "crashed"}
Points   == {"wait", "limit", "accept", "begin", "settings", "skip", "stop"}
            \cup UserCode \cup Ended

VARIABLES
    \* ---- the web server's side
    met,            \* requests FCGX_Accept has met so far
    response,       \* what the web server has received for each request
    \* ---- the_request of fcgiapp.c and the globals of hb_fcgi_c.c
    current,        \* the request whose streams exist, 0 when they are freed
    params,         \* the request whose parameters are allocated, 0 if none
    g_envp,         \* the request whose parameter array g_envp points at, 0 = NULL
    \* ---- the object oFcgi
    pc, lProcess,   \* where the process is; l_lProcessRequest of Wait
    ProcessingRequest, SkipRequest, RequestCount,
    MaxRequestToProcess, ReloadConfig,
    loaded,         \* the Loaded... flags, InputLength >= 0, RequestMethod set
    cache,          \* whose data each field of the object holds
    header,         \* ResponseHeader
    buffer,         \* what kind of page OutputBuffer holds
    calls,          \* calls the running On... method has made
    pageIsFile,     \* the page name of the request has an extension
    \* ---- history
    outcome,        \* what Wait decided about each request
    firsts,         \* calls of OnFirstRequest
    stops           \* calls of ShutDownFastCGIEXEAfterResponse

net    == <<met, response>>
lib    == <<current, params, g_envp>>
limit  == <<RequestCount, MaxRequestToProcess, ReloadConfig>>
fields == <<loaded, cache, header, buffer>>
hist   == <<outcome, firsts, stops>>
vars   == <<net, lib, pc, lProcess, ProcessingRequest, SkipRequest, limit,
            fields, calls, pageIsFile, hist>>

TypeOK ==
    /\ met \in 0..N
    /\ response \in [Requests -> Responses]
    /\ current \in 0..N
    /\ params \in 0..N
    /\ g_envp \in 0..N
    /\ pc \in Points
    /\ lProcess \in BOOLEAN
    /\ ProcessingRequest \in BOOLEAN
    /\ SkipRequest \in BOOLEAN
    /\ RequestCount \in Nat
    /\ MaxRequestToProcess \in Nat
    /\ ReloadConfig \in BOOLEAN
    /\ loaded \in [Lazy -> BOOLEAN]
    /\ cache \in [Fields -> SUBSET Requests]
    /\ header \in Headers
    /\ buffer \in Pages
    /\ calls \in 0..MaxCalls
    /\ pageIsFile \in BOOLEAN
    /\ outcome \in [Requests -> {"none", "page", "skip", "down"}]
    /\ firsts \in Nat
    /\ stops \in 0..MaxStops

-----------------------------------------------------------------------------
\* New(): the configuration is loaded once, nothing has been accepted.
Init ==
    /\ met = 0
    /\ response = [r \in Requests |->
                     [state |-> "pending", heads |-> 0, data |-> {}, page |-> {}]]
    /\ current = 0 /\ params = 0 /\ g_envp = 0
    /\ pc = "wait"
    /\ lProcess = FALSE
    /\ ProcessingRequest = FALSE
    /\ SkipRequest = FALSE
    /\ RequestCount = 0
    /\ MaxRequestToProcess \in Limits
    /\ ReloadConfig \in BOOLEAN
    /\ loaded = [f \in Lazy |-> FALSE]
    /\ cache = [f \in Fields |-> {}]
    /\ header = NoHeader
    /\ buffer = {}
    /\ calls = 0
    /\ pageIsFile = FALSE
    /\ outcome = [r \in Requests |-> "none"]
    /\ firsts = 0
    /\ stops = 0

-----------------------------------------------------------------------------
(* Answering a request *)

\* WriteOutput counts a Location and a 3xx Status as a redirect.
Redirected(h) == h.Status = "3xx" /\ h.Location

\* WriteOutput(): the header lines with the values they were given, then the
\* page, which a redirect drops.
Written(resp, h, b, c) ==
    [state |-> resp.state,
     heads |-> resp.heads + 1,
     data  |-> resp.data \cup c["ContentType"] \cup c["ResponseHeader"]
                 \cup IF Redirected(h) THEN {} ELSE c["OutputBuffer"],
     page  |-> IF Redirected(h) THEN {} ELSE b]

\* What becomes of a request, with what was received for it.
Settled(resp, s) == [resp EXCEPT !.state = s]

\* Mutant: END_REQUEST is not sent.
FCGX_FinishUnsent(resp) ==
    /\ response' = IF current = 0 THEN response
                   ELSE [response EXCEPT ![current] = Settled(resp, "open")]
    /\ current' = 0
    /\ params' = 0
    /\ UNCHANGED <<met, g_envp>>

\* Mutant: FCGX_Free leaves the pointers to the streams set, so that the next
\* FCGX_Finish ends a request that has been ended.
FCGX_FinishTwice(resp) ==
    /\ IF current = 0
       THEN response' = response
       ELSE \E s \in {"complete", "dropped"} :
               response' = [response EXCEPT ![current] = Settled(resp, s)]
    /\ params' = 0
    /\ UNCHANGED <<met, current, g_envp>>

\* FCGX_Finish_r: the streams are closed, which sends END_REQUEST unless a
\* write fails; then streams and parameters are freed.  The connection of a
\* failed write is closed.
FCGX_Finish(resp) ==
    /\ IF current = 0
       THEN response' = response
       ELSE \E s \in {"complete", "dropped"} :
               response' = [response EXCEPT ![current] = Settled(resp, s)]
    /\ current' = 0
    /\ params' = 0
    /\ UNCHANGED <<met, g_envp>>

\* Mutant: WriteOutput is not called.
FinishUnwritten(h, b, c) ==
    IF ProcessingRequest
    THEN FCGX_Finish(response[current])
    ELSE UNCHANGED <<net, lib>>

\* Finish() with the header h, the page b and the fields c of this moment.
Finish(h, b, c) ==
    IF ProcessingRequest
    THEN FCGX_Finish(Written(response[current], h, b, c))
    ELSE UNCHANGED <<net, lib>>

\* The end of the process closes its sockets: an open request is lost.
DropCurrent ==
    /\ response' = IF current = 0 THEN response
                   ELSE [response EXCEPT ![current] = Settled(@, "dropped")]
    /\ current' = 0
    /\ params' = 0
    /\ UNCHANGED <<met, g_envp>>

\* Mutant: what the application had printed goes out before the error page.
OnErrorAppends ==
    /\ buffer' = buffer \cup {"error"}
    /\ cache' = [cache EXCEPT !["OutputBuffer"] = {}]
    /\ IF ProcessingRequest /\ ~header.bad
       THEN Finish(header, buffer', cache') /\ ProcessingRequest' = FALSE
       ELSE DropCurrent /\ UNCHANGED ProcessingRequest
    /\ pc' = "exited"
    /\ UNCHANGED <<lProcess, SkipRequest, limit, loaded, header, pageIsFile, hist>>

\* OnError(): the page is replaced by the error page and finished; then BREAK
\* finds no enclosing SEQUENCE, and the process quits.  A header value that
\* is not a string makes WriteOutput fail again, which the TRY hides.
OnError ==
    /\ buffer' = {"error"}
    /\ cache' = [cache EXCEPT !["OutputBuffer"] = {}]
    /\ IF ProcessingRequest /\ ~header.bad
       THEN Finish(header, {"error"}, cache') /\ ProcessingRequest' = FALSE
       ELSE DropCurrent /\ UNCHANGED ProcessingRequest
    /\ pc' = "exited"
    /\ UNCHANGED <<lProcess, SkipRequest, limit, loaded, header, pageIsFile, hist>>

\* Finish() where WriteOutput succeeds; it leaves OutputBuffer empty.
FinishOk ==
    /\ ProcessingRequest => ~header.bad
    /\ Finish(header, buffer, cache)
    /\ ProcessingRequest' = FALSE
    /\ buffer' = IF ProcessingRequest THEN {} ELSE buffer
    /\ cache' = IF ProcessingRequest
                THEN [cache EXCEPT !["OutputBuffer"] = {}] ELSE cache
    /\ UNCHANGED <<loaded, header>>

-----------------------------------------------------------------------------
(* Wait() *)

WaitFinish ==
    /\ pc = "wait"
    /\ pc' = "limit"
    /\ SkipRequest' = FALSE
    /\ FinishOk
    /\ UNCHANGED <<lProcess, limit, pageIsFile, hist>>

WaitFinishFails ==
    /\ pc = "wait"
    /\ ProcessingRequest /\ header.bad
    /\ OnError

\* Mutant: one request too many.
LimitPassed ==
    MaxRequestToProcess > 0 /\ RequestCount > MaxRequestToProcess

LimitReached ==
    MaxRequestToProcess > 0 /\ RequestCount >= MaxRequestToProcess

CheckLimit ==
    /\ pc = "limit"
    /\ IF LimitReached
       THEN /\ pc' = "settings"
            /\ lProcess' = FALSE
            /\ ProcessingRequest' = FALSE
            /\ UNCHANGED <<net, lib>>
       ELSE /\ pc' = "accept"       \* FCGX_Accept finishes what is left open
            /\ FCGX_Finish(response[current])
            /\ UNCHANGED <<lProcess, ProcessingRequest>>
    /\ UNCHANGED <<SkipRequest, limit, fields, pageIsFile, hist>>

\* Mutant: hb_HClear(::ResponseHeader) is missing.
ResetFieldsButHeader ==
    /\ loaded' = [f \in Lazy |-> FALSE]
    /\ cache' = [f \in Fields |-> {}]
    /\ UNCHANGED header
    /\ buffer' = {}

\* Mutant: the inputs are taken to be loaded still.
ResetFieldsButInputs ==
    /\ UNCHANGED loaded
    /\ cache' = [f \in Fields |-> IF f \in Lazy THEN cache[f] ELSE {}]
    /\ header' = NoHeader
    /\ buffer' = {}

\* What Wait clears once a request has been accepted.
ResetFields ==
    /\ loaded' = [f \in Lazy |-> FALSE]
    /\ cache' = [f \in Fields |-> {}]
    /\ header' = NoHeader
    /\ buffer' = {}

AcceptReturns ==
    /\ pc = "accept"
    /\ met < N
    /\ met' = met + 1
    /\ response' = [response EXCEPT ![met + 1] = Settled(@, "open")]
    /\ current' = met + 1
    /\ params' = met + 1
    /\ g_envp' = met + 1
    /\ ResetFields
    /\ pageIsFile' \in BOOLEAN
    /\ pc' = "begin"
    /\ UNCHANGED <<lProcess, ProcessingRequest, SkipRequest, limit, hist>>

\* FCGX_Accept drops a connection that brings no usable request and goes on.
AcceptRejects ==
    /\ pc = "accept"
    /\ met < N
    /\ met' = met + 1
    /\ response' = [response EXCEPT ![met + 1] = Settled(@, "dropped")]
    /\ UNCHANGED <<lib, pc, lProcess, ProcessingRequest, SkipRequest, limit,
                   fields, pageIsFile, hist>>

AcceptFails ==
    /\ pc = "accept"
    /\ pc' = "settings"
    /\ lProcess' = FALSE
    /\ ProcessingRequest' = FALSE
    /\ UNCHANGED <<net, lib, SkipRequest, limit, fields, pageIsFile, hist>>

\* LoadAppConfig, when every request reloads the configuration.
ReloadAppConfig ==
    IF ReloadConfig
    THEN MaxRequestToProcess' \in Limits /\ ReloadConfig' \in BOOLEAN
    ELSE UNCHANGED <<MaxRequestToProcess, ReloadConfig>>

BeginRequest ==
    /\ pc = "begin"
    /\ ReloadAppConfig
    /\ RequestCount' = RequestCount + 1
    /\ lProcess' = TRUE
    /\ ProcessingRequest' = TRUE
    /\ pc' = "settings"
    /\ UNCHANGED <<net, lib, SkipRequest, fields, pageIsFile, hist>>

\* Mutant: the request is counted before the kill marker is looked for.
BeginDownCounted ==
    /\ pc = "begin"
    /\ ReloadAppConfig
    /\ FCGX_Finish(Written(response[current], header, buffer \cup {"down"}, cache))
    /\ buffer' = {}
    /\ cache' = [cache EXCEPT !["OutputBuffer"] = {}]
    /\ lProcess' = FALSE
    /\ ProcessingRequest' = FALSE
    /\ pc' = "settings"
    /\ RequestCount' = RequestCount + 1
    /\ outcome' = [outcome EXCEPT ![current] = "down"]
    /\ UNCHANGED <<SkipRequest, loaded, header, pageIsFile, firsts, stops>>

\* file(<exe>.kill) finds the marker, which the task manager writes and deletes
\* whenever it likes: BeginRequest or BeginDown, at every request.  The down
\* page is printed and finished on the spot.
BeginDown ==
    /\ pc = "begin"
    /\ ReloadAppConfig
    /\ FCGX_Finish(Written(response[current], header, buffer \cup {"down"}, cache))
    /\ buffer' = {}
    /\ cache' = [cache EXCEPT !["OutputBuffer"] = {}]
    /\ lProcess' = FALSE
    /\ ProcessingRequest' = FALSE
    /\ pc' = "settings"
    /\ outcome' = [outcome EXCEPT ![current] = "down"]
    /\ UNCHANGED <<SkipRequest, RequestCount, loaded, header, pageIsFile,
                   firsts, stops>>

\* The array g_envp points at is the one of a request not yet finished.
EnvLive == g_envp # 0 /\ g_envp = params

\* What a read through g_envp can find: the strings of its request, which freed
\* memory may or may not still hold.
EnvData == IF EnvLive THEN {{g_envp}} ELSE SUBSET ({g_envp} \ {0})

\* A read through NULL, or through freed memory, may end the process.
EnvFault ==
    /\ pc \in {"settings"} \cup UserCode
    /\ ~EnvLive
    /\ DropCurrent
    /\ pc' = "crashed"
    /\ UNCHANGED <<lProcess, ProcessingRequest, SkipRequest, limit, fields,
                   pageIsFile, hist>>

\* RequestSettings are filled in from the environment, whatever happened
\* before; then one of the hooks is due, or none.
ReadSettings ==
    /\ pc = "settings"
    /\ g_envp # 0
    /\ \E d \in EnvData : cache' = [cache EXCEPT !["RequestEnvironment"] = d]
    /\ pc' = IF ProcessingRequest
             THEN IF RequestCount = 1 THEN "first" ELSE "skip"
             ELSE IF RequestCount > 0 THEN "shutdown" ELSE "stop"
    /\ firsts' = IF ProcessingRequest /\ RequestCount = 1 THEN firsts + 1 ELSE firsts
    /\ UNCHANGED <<net, lib, lProcess, ProcessingRequest, SkipRequest, limit, loaded,
                   header, buffer, pageIsFile, outcome, stops>>

\* Mutant: a resource file counts as a page.
SkipResourceCounted ==
    /\ pc = "skip"
    /\ pageIsFile
    /\ SkipRequest' = TRUE
    /\ header' = [header EXCEPT !.Status = "other"]
    /\ outcome' = [outcome EXCEPT ![met] = "skip"]
    /\ pc' = "wait"
    /\ UNCHANGED <<net, lib, lProcess, ProcessingRequest, limit, loaded, cache,
                   buffer, pageIsFile, firsts, stops>>

\* A page name with an extension is answered 404 and not counted.
SkipResource ==
    /\ pc = "skip"
    /\ pageIsFile
    /\ SkipRequest' = TRUE
    /\ header' = [header EXCEPT !.Status = "other"]
    /\ RequestCount' = RequestCount - 1
    /\ outcome' = [outcome EXCEPT ![met] = "skip"]
    /\ pc' = "wait"
    /\ UNCHANGED <<net, lib, lProcess, ProcessingRequest, MaxRequestToProcess,
                   ReloadConfig, loaded, cache, buffer, pageIsFile,
                   firsts, stops>>

CallOnRequest ==
    /\ pc = "skip"
    /\ ~pageIsFile
    /\ outcome' = [outcome EXCEPT ![met] = "page"]
    /\ pc' = "handler"
    /\ UNCHANGED <<net, lib, lProcess, ProcessingRequest, SkipRequest, limit,
                   fields, pageIsFile, firsts, stops>>

\* Wait has returned .f. and the main procedure ends.
Exit ==
    /\ pc = "stop"
    /\ DropCurrent
    /\ pc' = "exited"
    /\ UNCHANGED <<lProcess, ProcessingRequest, SkipRequest, limit, fields,
                   pageIsFile, hist>>

-----------------------------------------------------------------------------
(* The application's OnFirstRequest, OnRequest and OnShutdown: any sequence *)
(* of calls of the methods the class exports.                               *)

\* Fields a first use of f fills; LoadInput also asks for the length.
LoadedBy(f) == (IF f = "Input" THEN {"Input", "InputLength"} ELSE {f}) \cap Lazy

\* Put(c, f, s): what f holds goes into s.  SetContentType replaces, the
\* others add.
Put(c, f, s) ==
    [c EXCEPT ![s] = IF s = "ContentType" THEN c[f] ELSE @ \cup c[f]]

\* A Get... method, its result then given to Print, SetHeaderValue (or
\* SetCookieValue), SetContentType or TraceAdd.
Use(f, s) ==
    /\ pc \in UserCode
    /\ IF f = "aTrace" \/ (f \in Lazy /\ loaded[f])
       THEN /\ cache' = Put(cache, f, s)
            /\ UNCHANGED loaded
       ELSE /\ g_envp # 0
            /\ \E d \in EnvData :
                 /\ cache' = Put([x \in Fields |->
                        CASE x = "RequestEnvironment" -> d
                          [] x \in LoadedBy(f) -> cache[x] \cup d
                          [] OTHER -> cache[x]], f, s)
                 /\ loaded' = [x \in Lazy |->
                        \/ loaded[x]
                        \/ x \in LoadedBy(f) /\ (x = "RequestMethod" => d # {})]
    /\ buffer' = IF s = "OutputBuffer" THEN buffer \cup {"app"} ELSE buffer
    /\ UNCHANGED <<net, lib, pc, lProcess, ProcessingRequest, SkipRequest, limit,
                   header, pageIsFile, hist>>

SetHeaderValue ==
    /\ pc \in UserCode
    /\ \/ \E s \in {"3xx", "other"} : header' = [header EXCEPT !.Status = s]
       \/ header' = [header EXCEPT !.Location = TRUE]
       \/ \E b \in BOOLEAN : header' = [header EXCEPT !.bad = b]
    /\ UNCHANGED <<net, lib, pc, lProcess, ProcessingRequest, SkipRequest, limit,
                   loaded, cache, buffer, pageIsFile, hist>>

Redirect ==
    /\ pc \in UserCode
    /\ header' = [header EXCEPT !.Status = "3xx", !.Location = TRUE]
    /\ cache' = [cache EXCEPT !["ContentType"] = {}]
    /\ UNCHANGED <<net, lib, pc, lProcess, ProcessingRequest, SkipRequest, limit,
                   loaded, buffer, pageIsFile, hist>>

ClearOutputBuffer ==
    /\ pc \in UserCode
    /\ buffer' = {}
    /\ cache' = [cache EXCEPT !["OutputBuffer"] = {}]
    /\ UNCHANGED <<net, lib, pc, lProcess, ProcessingRequest, SkipRequest, limit,
                   loaded, header, pageIsFile, hist>>

UserFinish ==
    /\ pc \in UserCode
    /\ FinishOk
    /\ UNCHANGED <<pc, lProcess, SkipRequest, limit, pageIsFile, hist>>

\* Mutant: the limit is set and the count left alone.
ShutDownUncounted ==
    /\ pc \in UserCode
    /\ stops < MaxStops
    /\ stops' = stops + 1
    /\ MaxRequestToProcess' = 1
    /\ UNCHANGED <<net, lib, pc, lProcess, ProcessingRequest, SkipRequest,
                   RequestCount, ReloadConfig, fields, pageIsFile, outcome, firsts>>

ShutDownFastCGIEXEAfterResponse ==
    /\ pc \in UserCode
    /\ stops < MaxStops
    /\ stops' = stops + 1
    /\ MaxRequestToProcess' = 1
    /\ RequestCount' = RequestCount + 1
    /\ UNCHANGED <<net, lib, pc, lProcess, ProcessingRequest, SkipRequest,
                   ReloadConfig, fields, pageIsFile, outcome, firsts>>

\* A run-time error the application does not catch, a failing Finish included.
UserError == pc \in UserCode /\ OnError

Return ==
    /\ pc \in UserCode
    /\ pc' = CASE pc = "first"   -> "skip"
               [] pc = "handler" -> "wait"
               [] OTHER          -> "stop"
    /\ calls' = 0
    /\ UNCHANGED <<net, lib, lProcess, ProcessingRequest, SkipRequest, limit,
                   fields, pageIsFile, hist>>

UserCall ==
    /\ calls < MaxCalls
    /\ calls' = calls + 1
    /\ \/ \E flow \in Flows : Use(flow[1], flow[2])
       \/ SetHeaderValue \/ Redirect \/ ClearOutputBuffer
       \/ UserFinish \/ ShutDownFastCGIEXEAfterResponse \/ UserError

-----------------------------------------------------------------------------
\* The steps of Wait and of the main loop once FCGX_Accept has returned.
Wait ==
    /\ \/ WaitFinish \/ WaitFinishFails \/ CheckLimit
       \/ BeginRequest \/ BeginDown \/ ReadSettings \/ EnvFault
       \/ SkipResource \/ CallOnRequest \/ Exit
    /\ UNCHANGED calls

Accept == (AcceptReturns \/ AcceptRejects \/ AcceptFails) /\ UNCHANGED calls

Next == Wait \/ Return \/ Accept \/ UserCall

\* The scheduler runs the process, and the On... methods of the application
\* return; nobody owes the worker another request.
Fairness == WF_vars(Wait \/ Return)

Spec == Init /\ [][Next]_vars /\ Fairness

-----------------------------------------------------------------------------
(* Properties *)

\* No response contains data of another request: what an earlier request left
\* in the object (inputs read lazily, headers, output, trace), or in freed
\* memory, never gets into a later answer.
NoCrossRequestData == \A r \in Requests : response[r].data \subseteq {r}

\* A request that got its END_REQUEST got exactly one header block before it,
\* whichever of Wait, the application, the kill marker, OnError or FCGX_Accept
\* finished it.
OneFullResponse ==
    \A r \in Requests : response[r].state = "complete" => response[r].heads = 1

\* WriteOutput never prints through a freed g_out: while ProcessingRequest is
\* set, the_request still has the streams of the request met last.
StreamLive ==
    ProcessingRequest /\ pc \notin Ended => current # 0 /\ current = met /\ EnvLive

\* RequestCount is the number of pages, skipped resource files left out, plus
\* the calls of ShutDownFastCGIEXEAfterResponse, plus the request Wait has
\* counted and not yet judged.
PagesBuilt(o) == {r \in Requests : o[r] = "page"}
Unjudged == IF lProcess /\ pc \in {"settings", "first", "skip"} THEN 1 ELSE 0
CountAccounting ==
    pc \notin Ended => RequestCount = Cardinality(PagesBuilt(outcome)) + stops + Unjudged

\* A worker takes another request only while it has built fewer pages than the
\* limit in force, and never after ShutDownFastCGIEXEAfterResponse.
StopsAtLimit ==
    [][met' # met => /\ stops = 0
                     /\ \/ MaxRequestToProcess = 0
                        \/ Cardinality(PagesBuilt(outcome)) < MaxRequestToProcess]_vars

\* A request that met the kill marker is the last one, reaches no code of the
\* application, and is answered with the down page and nothing else.
KillAnswersDown ==
    \A r \in Requests : outcome[r] = "down" =>
        /\ r = met
        /\ pc \notin {"accept", "begin", "first", "handler"}
        /\ response[r].heads = 1 /\ response[r].page = {"down"}
        /\ response[r].data = {}

\* OnRequest and OnShutdown run only in a process that ran OnFirstRequest, and
\* no request is taken after OnShutdown.
HookOrder ==
    /\ pc \in {"handler", "shutdown"} => firsts > 0
    /\ pc = "shutdown" => ~lProcess /\ current = 0

\* Every request taken is answered, or its connection closed.
EveryRequestSettles ==
    \A r \in Requests :
        response[r].state = "open" ~> response[r].state \in {"complete", "dropped"}

\* The process ends after a request met the kill marker, and after the
\* application asked for it, without another request having to come.
StopsWhenAsked ==
    (stops > 0 \/ \E r \in Requests : outcome[r] = "down") ~> pc \in Ended

\* The worker keeps the promise of RequestProtocol.
Protocol == INSTANCE RequestProtocol WITH
    fate <- [r \in Requests |->
                CASE response[r].state = "pending"  -> "pending"
                  [] response[r].state = "open"     -> "held"
                  [] response[r].state = "complete" -> "answered"
                  [] OTHER                          -> "lost"],
    taken <- met,
    running <- pc \notin Ended
ImplementsProtocol == Protocol!Spec

\* fcgiapp.c says of the envp array that it is "freed by the next call to
\* FCGX_Finish or FCGX_Accept" and must not be used after; Wait reads it on
\* every path, those that have finished the request included.
NoUseOfFreedEnvironment == pc = "settings" /\ g_envp # 0 => EnvLive

\* An error the application does not catch, whether in its methods or in the Finish
\* of Wait, is answered by the error page and nothing of the page it was building;
\* when a header value is not a string OnError cannot write either, and the request
\* is lost with the process, not half answered.
ErrorIsAnswered ==
    [][(WaitFinishFails \/ UserError) /\ current # 0 =>
           LET answer == response'[current]
           IN  IF header.bad THEN answer.heads = 0 /\ answer.state = "dropped"
               ELSE answer.heads = 1 /\ answer.page \subseteq {"error"}]_vars
=============================================================================
