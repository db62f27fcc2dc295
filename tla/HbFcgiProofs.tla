---------------------------- MODULE HbFcgiProofs ----------------------------
(***************************************************************************)
(* HbFcgi for every number of requests, every set of inputs and flows, and *)
(* every bound: the types, and that answers are whole, are written only    *)
(* while the request is held, and carry no other request's data.           *)
(***************************************************************************)
EXTENDS HbFcgi, FiniteSetTheorems, TLAPS

\* the_request: its streams and its parameters live and die together, and are
\* those of the request met last, at which g_envp points.
LibInv ==
    /\ params = current
    /\ g_envp <= met
    /\ current # 0 => current = met /\ g_envp = met

\* What the object holds is data of the request g_envp points at.
CacheInv == \A f \in Fields : cache[f] \subseteq {g_envp}

\* What the web server has received so far.
ResponseInv ==
    \A r \in Requests :
        /\ response[r].data \subseteq {r}
        /\ response[r].state = "pending" <=> r > met
        /\ response[r].state = "open" <=> r = current
        /\ response[r].state \in {"pending", "open"} =>
              response[r].heads = 0 /\ response[r].data = {}
        /\ response[r].state = "complete" => response[r].heads = 1

\* ProcessingRequest says whether the streams exist, but between the accept
\* and the kill check, where the object is as good as new.
ProcessInv ==
    /\ pc \notin Ended \cup {"begin"} => (ProcessingRequest <=> current # 0)
    /\ pc = "begin" =>
          /\ current # 0 /\ ~ProcessingRequest
          /\ header = NoHeader /\ buffer = {}
          /\ \A f \in Fields : cache[f] = {}
    /\ pc \in {"limit", "accept", "shutdown", "stop"} => ~ProcessingRequest
    /\ pc \in {"first", "skip"} => lProcess
    /\ pc = "settings" /\ ProcessingRequest => lProcess
    /\ pc = "settings" /\ lProcess => ProcessingRequest

\* Wait has counted the request it has not judged yet.
CountInv == lProcess /\ pc \in {"settings", "first", "skip"} => RequestCount > 0

IInv == TypeOK /\ LibInv /\ CacheInv /\ ResponseInv /\ ProcessInv /\ CountInv

-----------------------------------------------------------------------------
(* What the operations on the_request do to the invariant. *)

\* The part of TypeOK about the web server and the library.
LibType ==
    /\ met \in 0..N
    /\ response \in [Requests -> Responses]
    /\ current \in 0..N /\ params \in 0..N /\ g_envp \in 0..N

USE HbFcgiAssumption DEF Requests

\* WriteOutput, on a request nothing was written to, adds one header block and
\* only data the object holds.
LEMMA WrittenOnce ==
    ASSUME NEW resp \in Responses, resp.heads = 0, resp.data = {},
           NEW h \in Headers, NEW b \in Pages,
           NEW c \in [Fields -> SUBSET Requests], NEW x,
           \A f \in Fields : c[f] \subseteq {x}
    PROVE  /\ Written(resp, h, b, c) \in Responses
           /\ Written(resp, h, b, c).heads = 1
           /\ Written(resp, h, b, c).data \subseteq {x}
<1>1. /\ {"ContentType", "ResponseHeader", "OutputBuffer"} \subseteq Fields
      /\ {} \in Pages
  BY DEF Fields, Sinks, Pages
<1>2. /\ c["ContentType"] \subseteq {x} /\ c["ResponseHeader"] \subseteq {x}
      /\ c["OutputBuffer"] \subseteq {x}
      /\ c["ContentType"] \in SUBSET Requests /\ c["ResponseHeader"] \in SUBSET Requests
      /\ c["OutputBuffer"] \in SUBSET Requests
  BY <1>1
<1> DEFINE data == resp.data \cup c["ContentType"] \cup c["ResponseHeader"]
                    \cup IF Redirected(h) THEN {} ELSE c["OutputBuffer"]
           page == IF Redirected(h) THEN {} ELSE b
<1>3. data \in SUBSET Requests /\ data \subseteq {x} /\ page \in Pages
  BY <1>1, <1>2
<1>4. Written(resp, h, b, c) =
         [state |-> resp.state, heads |-> resp.heads + 1, data |-> data, page |-> page]
  BY DEF Written
<1> HIDE DEF data, page
<1> QED BY <1>3, <1>4 DEF Responses

\* A request settled is a response with another state.
LEMMA SettledType ==
    ASSUME NEW resp \in Responses, NEW s \in {"pending", "open", "complete", "dropped"}
    PROVE  /\ Settled(resp, s) \in Responses
           /\ Settled(resp, s).state = s
           /\ Settled(resp, s).heads = resp.heads
           /\ Settled(resp, s).data = resp.data
           /\ Settled(resp, s).page = resp.page
  BY DEF Settled, Responses

\* FCGX_Finish_r with a whole response leaves no request open.
LEMMA FinishKeeps ==
    ASSUME LibType, LibInv, ResponseInv,
           NEW resp \in Responses,
           current # 0 => resp.heads = 1 /\ resp.data \subseteq {current},
           FCGX_Finish(resp)
    PROVE  LibType' /\ LibInv' /\ ResponseInv' /\ current' = 0
<1>1. CASE current = 0
  BY <1>1 DEF LibType, LibInv, ResponseInv, FCGX_Finish
<1>2. CASE current # 0
  <2>1. current \in Requests /\ current = met
    BY <1>2 DEF LibType, LibInv
  <2>2. PICK s \in {"complete", "dropped"} :
             response' = [response EXCEPT ![current] = Settled(resp, s)]
    BY <1>2 DEF FCGX_Finish
  <2>3. /\ Settled(resp, s) \in Responses /\ Settled(resp, s).state = s
        /\ Settled(resp, s).heads = 1 /\ Settled(resp, s).data \subseteq {current}
    BY <1>2, SettledType
  <2>4. LibType' /\ LibInv' /\ current' = 0 /\ met' = met
    BY <2>1, <2>2, <2>3 DEF LibType, LibInv, FCGX_Finish
  <2>5. ResponseInv'
    BY <1>2, <2>1, <2>2, <2>3, <2>4 DEF ResponseInv, LibType
  <2> QED BY <2>4, <2>5
<1> QED BY <1>1, <1>2

\* The end of the process does so too.
LEMMA DropKeeps ==
    ASSUME LibType, LibInv, ResponseInv, DropCurrent
    PROVE  LibType' /\ LibInv' /\ ResponseInv' /\ current' = 0
<1>1. CASE current = 0
  BY <1>1 DEF LibType, LibInv, ResponseInv, DropCurrent
<1>2. CASE current # 0
  <2>1. current \in Requests /\ current = met
    BY <1>2 DEF LibType, LibInv
  <2> DEFINE resp == Settled(response[current], "dropped")
  <2>2. response' = [response EXCEPT ![current] = resp]
    BY <1>2 DEF DropCurrent
  <2>3. /\ resp \in Responses /\ resp.state = "dropped"
        /\ resp.data = response[current].data
    BY <2>1, SettledType DEF LibType
  <2> HIDE DEF resp
  <2>4. LibType' /\ LibInv' /\ current' = 0 /\ met' = met
    BY <2>1, <2>2, <2>3 DEF LibType, LibInv, DropCurrent
  <2>5. ResponseInv'
    BY <1>2, <2>1, <2>2, <2>3, <2>4 DEF ResponseInv, LibType
  <2> QED BY <2>4, <2>5
<1> QED BY <1>1, <1>2

-----------------------------------------------------------------------------
(* The invariant holds at first and after every step. *)

FieldType ==
    /\ loaded \in [Lazy -> BOOLEAN]
    /\ cache \in [Fields -> SUBSET Requests]
    /\ header \in Headers
    /\ buffer \in Pages

ControlType ==
    /\ pc \in Points
    /\ lProcess \in BOOLEAN /\ ProcessingRequest \in BOOLEAN /\ SkipRequest \in BOOLEAN
    /\ RequestCount \in Nat /\ MaxRequestToProcess \in Nat /\ ReloadConfig \in BOOLEAN
    /\ calls \in 0..MaxCalls /\ pageIsFile \in BOOLEAN

HistType ==
    /\ outcome \in [Requests -> {"none", "page", "skip", "down"}]
    /\ firsts \in Nat /\ stops \in 0..MaxStops

LEMMA TypeParts ==
    /\ TypeOK <=> LibType /\ FieldType /\ ControlType /\ HistType
    /\ TypeOK' <=> LibType' /\ FieldType' /\ ControlType' /\ HistType'
  BY DEF TypeOK, LibType, FieldType, ControlType, HistType

LEMMA InitInv == Init => IInv
<1> SUFFICES ASSUME Init PROVE IInv
  OBVIOUS
<1>1. LibType /\ LibInv /\ ResponseInv
  BY DEF Init, LibType, LibInv, ResponseInv, Responses, Pages
<1>2. FieldType
  BY DEF Init, FieldType, Headers, NoHeader, Pages
<1>3. ControlType
  <2>1. MaxRequestToProcess \in Nat /\ RequestCount \in Nat /\ calls \in 0..MaxCalls
    BY DEF Init
  <2>2. /\ lProcess \in BOOLEAN /\ ProcessingRequest \in BOOLEAN
        /\ SkipRequest \in BOOLEAN /\ ReloadConfig \in BOOLEAN
        /\ pageIsFile \in BOOLEAN
    BY DEF Init
  <2>3. pc \in Points
    BY DEF Init, Points
  <2> QED BY <2>1, <2>2, <2>3 DEF ControlType
<1>4. HistType
  BY DEF Init, HistType
<1>5. CacheInv /\ ProcessInv /\ CountInv
  BY DEF Init, CacheInv, ProcessInv, CountInv, Ended
<1> QED BY <1>1, <1>2, <1>3, <1>4, <1>5, TypeParts DEF IInv

\* A finish of the request in progress, when its headers are printable.
LEMMA FinishOkKeeps ==
    ASSUME IInv, pc \notin Ended \cup {"begin"}, FinishOk
    PROVE  /\ LibType' /\ LibInv' /\ ResponseInv' /\ CacheInv' /\ FieldType'
           /\ current' = 0 /\ ~ProcessingRequest'
<1> USE TypeParts DEF IInv
<1>1. CASE ProcessingRequest
  <2>1. current # 0 /\ current \in Requests /\ current = g_envp
    BY <1>1 DEF ProcessInv, LibInv, LibType
  <2>2. /\ response[current] \in Responses
        /\ response[current].heads = 0 /\ response[current].data = {}
    BY <2>1 DEF ResponseInv, LibType
  <2> DEFINE resp == Written(response[current], header, buffer, cache)
  <2>a. \A f \in Fields : cache[f] \subseteq {current}
    BY <2>1 DEF CacheInv
  <2>3. resp \in Responses /\ resp.heads = 1 /\ resp.data \subseteq {current}
    BY <2>2, <2>a, WrittenOnce DEF FieldType
  <2>4. FCGX_Finish(resp)
    BY <1>1 DEF FinishOk, Finish
  <2> HIDE DEF resp
  <2>5. LibType' /\ LibInv' /\ ResponseInv' /\ current' = 0 /\ g_envp' = g_envp
    BY <2>3, <2>4, FinishKeeps DEF FCGX_Finish
  <2>6. CacheInv' /\ FieldType' /\ ~ProcessingRequest'
    BY <1>1, <2>5 DEF FinishOk, CacheInv, FieldType, Pages
  <2> QED BY <2>5, <2>6
<1>2. CASE ~ProcessingRequest
  <2>1. current = 0
    BY <1>2 DEF ProcessInv
  <2>2. UNCHANGED <<net, lib, fields>> /\ ~ProcessingRequest'
    BY <1>2 DEF FinishOk, Finish, fields
  <2> QED BY <2>1, <2>2 DEF net, lib, fields, LibType, LibInv, ResponseInv,
             CacheInv, FieldType
<1> QED BY <1>1, <1>2

\* An error leaves nothing open, whether the error page could be sent or not.
LEMMA OnErrorKeeps ==
    ASSUME IInv, pc \notin Ended \cup {"begin"}, OnError, calls' \in 0..MaxCalls
    PROVE  IInv'
<1> USE TypeParts DEF IInv
<1>1. FieldType' /\ CacheInv' /\ pc' = "exited"
  <2>1. g_envp' = g_envp
    BY DEF OnError, Finish, FCGX_Finish, DropCurrent, net, lib
  <2> QED BY <2>1 DEF OnError, FieldType, CacheInv, Pages
<1>2. LibType' /\ LibInv' /\ ResponseInv' /\ ProcessingRequest' \in BOOLEAN
  <2>1. CASE ProcessingRequest /\ ~header.bad
    <3>1. current # 0 /\ current \in Requests /\ current = g_envp
      BY <2>1 DEF ProcessInv, LibInv, LibType
    <3>2. /\ response[current] \in Responses
          /\ response[current].heads = 0 /\ response[current].data = {}
      BY <3>1 DEF ResponseInv, LibType
    <3> DEFINE clean == [cache EXCEPT !["OutputBuffer"] = {}]
               resp == Written(response[current], header, {"error"}, clean)
    <3>3. /\ clean \in [Fields -> SUBSET Requests]
          /\ \A f \in Fields : clean[f] \subseteq {current}
          /\ {"error"} \in Pages
      BY <3>1 DEF CacheInv, FieldType, Pages
    <3>4. FCGX_Finish(resp)
      BY <2>1 DEF OnError, Finish
    <3> HIDE DEF clean
    <3>5. resp \in Responses /\ resp.heads = 1 /\ resp.data \subseteq {current}
      BY <3>2, <3>3, WrittenOnce DEF FieldType
    <3> HIDE DEF resp
    <3> QED BY <2>1, <3>4, <3>5, FinishKeeps DEF OnError
  <2>2. CASE ~(ProcessingRequest /\ ~header.bad)
    BY <2>2, DropKeeps DEF OnError, ControlType
  <2> QED BY <2>1, <2>2
<1>3. ControlType' /\ HistType' /\ ProcessInv' /\ CountInv'
  BY <1>1, <1>2 DEF OnError, ControlType, HistType, ProcessInv, CountInv, Points, Ended,
     limit, hist
<1> QED BY <1>1, <1>2, <1>3

\* FCGX_Accept: a request comes with a clean object.
LEMMA AcceptKeeps == ASSUME IInv, Accept PROVE IInv'
<1> USE TypeParts DEF IInv
<1>1. current = 0 /\ ~ProcessingRequest /\ pc = "accept"
  BY DEF Accept, AcceptReturns, AcceptRejects, AcceptFails, ProcessInv, Ended
<1>2. CASE AcceptReturns
  <2> DEFINE new == Settled(response[met + 1], "open")
  <2>1. met + 1 \in Requests
    BY <1>2 DEF AcceptReturns, LibType
  <2>2. /\ new \in Responses /\ new.state = "open"
        /\ new.heads = 0 /\ new.data = {}
    BY <2>1, SettledType DEF LibType, ResponseInv
  <2>3. response' = [response EXCEPT ![met + 1] = new]
    BY <1>2 DEF AcceptReturns
  <2> HIDE DEF new
  <2>4. LibType' /\ LibInv'
    BY <1>2, <2>1, <2>2, <2>3 DEF AcceptReturns, LibType, LibInv
  <2>5. ResponseInv'
    BY <1>1, <1>2, <2>1, <2>2, <2>3 DEF AcceptReturns, ResponseInv, LibType
  <2>6. FieldType' /\ CacheInv' /\ (\A f \in Fields : cache'[f] = {})
    BY <1>2 DEF AcceptReturns, ResetFields, FieldType, CacheInv, Headers, NoHeader, Pages
  <2>7. ControlType' /\ HistType'
    BY <1>2 DEF AcceptReturns, Accept, ControlType, HistType, Points, limit, hist
  <2>8. ProcessInv' /\ CountInv'
    BY <1>1, <1>2, <2>1, <2>6 DEF AcceptReturns, ProcessInv, CountInv, ResetFields, Ended
  <2> QED BY <2>4, <2>5, <2>6, <2>7, <2>8
<1>3. CASE AcceptRejects
  <2> DEFINE new == Settled(response[met + 1], "dropped")
  <2>1. met + 1 \in Requests
    BY <1>3 DEF AcceptRejects, LibType
  <2>2. /\ new \in Responses /\ new.state = "dropped" /\ new.data = {}
    BY <2>1, SettledType DEF LibType, ResponseInv
  <2>3. response' = [response EXCEPT ![met + 1] = new]
    BY <1>3 DEF AcceptRejects
  <2> HIDE DEF new
  <2>4. LibType' /\ LibInv'
    BY <1>1, <1>3, <2>1, <2>2, <2>3 DEF AcceptRejects, LibType, LibInv, lib
  <2>5. ResponseInv'
    BY <1>1, <1>3, <2>1, <2>2, <2>3 DEF AcceptRejects, ResponseInv, LibType, lib
  <2>6. UNCHANGED <<lib, pc, lProcess, ProcessingRequest, SkipRequest, limit, fields,
                    calls, pageIsFile, hist>>
    BY <1>3 DEF Accept, AcceptRejects, AcceptReturns, AcceptFails
  <2>7. FieldType' /\ CacheInv' /\ ControlType' /\ HistType' /\ ProcessInv' /\ CountInv'
    BY <1>1, <2>6 DEF FieldType, CacheInv, ControlType, HistType, ProcessInv, CountInv,
       lib, limit, fields, hist, Ended
  <2> QED BY <2>4, <2>5, <2>7
<1>4. CASE AcceptFails
  <2>1. UNCHANGED <<net, lib, SkipRequest, limit, fields, calls, pageIsFile, hist>>
    BY <1>4 DEF Accept, AcceptFails
  <2>2. LibType' /\ LibInv' /\ ResponseInv' /\ FieldType' /\ CacheInv' /\ HistType'
    BY <2>1 DEF LibType, LibInv, ResponseInv, FieldType, CacheInv, HistType,
       net, lib, fields, hist
  <2>3. ControlType' /\ ProcessInv' /\ CountInv'
    BY <1>1, <1>4, <2>1 DEF AcceptFails, ControlType, ProcessInv, CountInv, Points,
       lib, limit, Ended
  <2> QED BY <2>2, <2>3
<1> QED BY <1>2, <1>3, <1>4 DEF Accept

\* The On... methods: whatever the application calls.
LEMMA UserKeeps == ASSUME IInv, UserCall PROVE IInv'
<1> USE TypeParts DEF IInv
<1>1. /\ pc \in UserCode /\ pc \notin Ended \cup {"begin"}
      /\ calls' \in 0..MaxCalls
  <2>1. pc \in UserCode
    BY DEF UserCall, Use, SetHeaderValue, Redirect, ClearOutputBuffer, UserFinish,
       ShutDownFastCGIEXEAfterResponse, UserError
  <2>2. calls' \in 0..MaxCalls
    BY DEF UserCall, ControlType
  <2> QED BY <2>1, <2>2 DEF UserCode, Ended
<1>2. ASSUME NEW f \in Sources, NEW s \in Sinks, Use(f, s)
      PROVE  IInv'
  <2>1. UNCHANGED <<net, lib, pc, lProcess, ProcessingRequest, SkipRequest, limit,
                    header, pageIsFile, hist>>
    BY <1>2 DEF Use
  <2>2. f \in Fields /\ s \in Fields
    BY DEF Fields
  <2>3. /\ cache' \in [Fields -> SUBSET Requests]
        /\ loaded' \in [Lazy -> BOOLEAN]
        /\ \A x \in Fields : cache'[x] \subseteq {g_envp}
    <3>1. ASSUME NEW c \in [Fields -> SUBSET Requests],
                 \A x \in Fields : c[x] \subseteq {g_envp}
          PROVE  /\ Put(c, f, s) \in [Fields -> SUBSET Requests]
                 /\ \A x \in Fields : Put(c, f, s)[x] \subseteq {g_envp}
      <4>1. c[f] \in SUBSET Requests /\ c[f] \subseteq {g_envp}
            /\ c[s] \in SUBSET Requests /\ c[s] \subseteq {g_envp}
        BY <2>2, <3>1
      <4> DEFINE v == IF s = "ContentType" THEN c[f] ELSE c[s] \cup c[f]
      <4>2. v \in SUBSET Requests /\ v \subseteq {g_envp}
        BY <4>1
      <4>3. Put(c, f, s) = [c EXCEPT ![s] = v]
        BY <2>2, <3>1 DEF Put
      <4> HIDE DEF v
      <4> QED BY <3>1, <4>2, <4>3
    <3>2. CASE cache' = Put(cache, f, s) /\ UNCHANGED loaded
      BY <3>1, <3>2 DEF FieldType, CacheInv
    <3>3. ASSUME NEW d \in EnvData,
                 cache' = Put([x \in Fields |->
                        CASE x = "RequestEnvironment" -> d
                          [] x \in LoadedBy(f) -> cache[x] \cup d
                          [] OTHER -> cache[x]], f, s),
                 loaded' = [x \in Lazy |->
                        \/ loaded[x]
                        \/ x \in LoadedBy(f) /\ (x = "RequestMethod" => d # {})]
          PROVE  /\ cache' \in [Fields -> SUBSET Requests]
                 /\ loaded' \in [Lazy -> BOOLEAN]
                 /\ \A x \in Fields : cache'[x] \subseteq {g_envp}
      <4>1. d \subseteq {g_envp} \ {0} /\ d \in SUBSET Requests
        BY DEF EnvData, EnvLive, LibType
      <4> DEFINE c == [x \in Fields |->
                        CASE x = "RequestEnvironment" -> d
                          [] x \in LoadedBy(f) -> cache[x] \cup d
                          [] OTHER -> cache[x]]
      <4>2. \A x \in Fields : c[x] \in SUBSET Requests /\ c[x] \subseteq {g_envp}
        BY <4>1 DEF FieldType, CacheInv
      <4>3. c \in [Fields -> SUBSET Requests]
        BY <4>2
      <4>4. cache' = Put(c, f, s)
        BY <3>3
      <4> HIDE DEF c
      <4>5. loaded' \in [Lazy -> BOOLEAN]
        BY <3>3
      <4> QED BY <3>1, <4>2, <4>3, <4>4, <4>5
    <3> QED BY <1>2, <3>2, <3>3 DEF Use
  <2>4. buffer' \in Pages
    BY <1>2 DEF Use, FieldType, Pages
  <2>5. FieldType' /\ CacheInv'
    BY <2>1, <2>3, <2>4 DEF FieldType, CacheInv, lib
  <2>6. LibType' /\ LibInv' /\ ResponseInv' /\ HistType' /\ ControlType' /\ CountInv'
    BY <1>1, <2>1 DEF LibType, LibInv, ResponseInv, HistType, ControlType, CountInv,
       net, lib, limit, hist
  <2>7. ProcessInv'
    BY <1>1, <2>1 DEF ProcessInv, lib
  <2> QED BY <2>5, <2>6, <2>7
<1>3. CASE SetHeaderValue \/ Redirect \/ ClearOutputBuffer
  <2>1. /\ UNCHANGED <<net, lib, pc, lProcess, ProcessingRequest, SkipRequest, limit,
                       loaded, pageIsFile, hist>>
        /\ \/ UNCHANGED cache
           \/ \E k \in {"ContentType", "OutputBuffer"} : cache' = [cache EXCEPT ![k] = {}]
        /\ buffer' \in Pages
        /\ header' \in Headers
    BY <1>3 DEF SetHeaderValue, Redirect, ClearOutputBuffer, FieldType, Headers, Pages
  <2>2. FieldType' /\ CacheInv'
    BY <2>1 DEF FieldType, CacheInv, lib
  <2>3. LibType' /\ LibInv' /\ ResponseInv' /\ HistType' /\ ControlType' /\ CountInv'
    BY <1>1, <2>1 DEF LibType, LibInv, ResponseInv, HistType, ControlType, CountInv,
       net, lib, limit, hist
  <2>4. ProcessInv'
    BY <1>1, <2>1 DEF ProcessInv, lib
  <2> QED BY <2>2, <2>3, <2>4
<1>4. CASE UserFinish
  <2>1. UNCHANGED <<pc, lProcess, SkipRequest, limit, pageIsFile, hist>>
    BY <1>4 DEF UserFinish
  <2>2. /\ LibType' /\ LibInv' /\ ResponseInv' /\ CacheInv' /\ FieldType'
        /\ current' = 0 /\ ~ProcessingRequest' /\ ProcessingRequest' \in BOOLEAN
    BY <1>1, <1>4, FinishOkKeeps DEF UserFinish, FinishOk
  <2>3. ControlType' /\ HistType' /\ CountInv'
    BY <1>1, <2>1, <2>2 DEF ControlType, HistType, CountInv, limit, hist
  <2>4. ProcessInv'
    BY <1>1, <2>1, <2>2 DEF ProcessInv, UserCode
  <2> QED BY <2>2, <2>3, <2>4
<1>5. CASE ShutDownFastCGIEXEAfterResponse
  <2>1. /\ UNCHANGED <<net, lib, pc, lProcess, ProcessingRequest, SkipRequest,
                       ReloadConfig, fields, pageIsFile, outcome, firsts>>
        /\ RequestCount' = RequestCount + 1 /\ MaxRequestToProcess' = 1
        /\ stops' = stops + 1 /\ stops < MaxStops
    BY <1>5 DEF ShutDownFastCGIEXEAfterResponse
  <2>2. LibType' /\ LibInv' /\ ResponseInv' /\ FieldType' /\ CacheInv'
    BY <2>1 DEF LibType, LibInv, ResponseInv, FieldType, CacheInv, net, lib, fields
  <2>3. ControlType' /\ HistType' /\ CountInv'
    BY <1>1, <2>1 DEF ControlType, HistType, CountInv
  <2>4. ProcessInv'
    BY <1>1, <2>1 DEF ProcessInv, lib, fields
  <2> QED BY <2>2, <2>3, <2>4
<1>6. CASE UserError
  BY <1>1, <1>6, OnErrorKeeps DEF UserError
<1> QED BY <1>2, <1>3, <1>4, <1>5, <1>6, HbFcgiAssumption DEF UserCall

\* The steps of Wait and of the main loop.
LEMMA WaitKeeps == ASSUME IInv, Wait PROVE IInv'
<1> USE TypeParts DEF IInv
<1>0. UNCHANGED calls /\ calls' \in 0..MaxCalls
  BY DEF Wait, ControlType
<1>1. CASE WaitFinish
  <2>1. /\ pc = "wait" /\ pc' = "limit" /\ SkipRequest' = FALSE /\ FinishOk
        /\ UNCHANGED <<lProcess, limit, pageIsFile, hist>>
    BY <1>1 DEF WaitFinish
  <2>2. /\ LibType' /\ LibInv' /\ ResponseInv' /\ CacheInv' /\ FieldType'
        /\ current' = 0 /\ ~ProcessingRequest' /\ ProcessingRequest' \in BOOLEAN
    BY <2>1, FinishOkKeeps DEF FinishOk, Ended
  <2>3. ControlType' /\ HistType'
    BY <1>0, <2>1, <2>2 DEF ControlType, HistType, Points, limit, hist
  <2>4. ProcessInv' /\ CountInv'
    BY <2>1, <2>2 DEF ProcessInv, CountInv, Ended
  <2> QED BY <2>2, <2>3, <2>4
<1>2. CASE WaitFinishFails
  BY <1>0, <1>2, OnErrorKeeps DEF WaitFinishFails, Ended
<1>3. CASE CheckLimit
  <2>1. current = 0 /\ ~ProcessingRequest /\ params = 0
    BY <1>3 DEF CheckLimit, ProcessInv, LibInv, Ended
  <2>2. /\ UNCHANGED <<net, lib, SkipRequest, limit, fields, pageIsFile, hist>>
        /\ ~ProcessingRequest' /\ ProcessingRequest' \in BOOLEAN
        /\ \/ pc' = "settings" /\ lProcess' = FALSE
           \/ pc' = "accept" /\ lProcess' = lProcess
    <3>1. UNCHANGED <<SkipRequest, limit, fields, pageIsFile, hist>>
      BY <1>3 DEF CheckLimit
    <3>2. CASE LimitReached
      BY <1>3, <3>1, <3>2 DEF CheckLimit
    <3>3. CASE ~LimitReached
      <4>1. /\ pc' = "accept" /\ FCGX_Finish(response[current])
            /\ UNCHANGED <<lProcess, ProcessingRequest>>
        BY <1>3, <3>3 DEF CheckLimit
      <4>2. UNCHANGED <<net, lib>>
        BY <2>1, <4>1 DEF FCGX_Finish, net, lib
      <4>3. ProcessingRequest' \in BOOLEAN
        BY <4>1 DEF ControlType
      <4> QED BY <2>1, <3>1, <4>1, <4>2, <4>3
    <3> QED BY <3>2, <3>3
  <2>3. LibType' /\ LibInv' /\ ResponseInv' /\ FieldType' /\ CacheInv' /\ HistType'
    BY <2>2 DEF LibType, LibInv, ResponseInv, FieldType, CacheInv, HistType,
       net, lib, fields, hist
  <2>4. ControlType'
    BY <1>0, <2>2 DEF ControlType, Points, limit
  <2>5. ProcessInv' /\ CountInv'
    BY <2>1, <2>2 DEF ProcessInv, CountInv, Ended, lib
  <2> QED BY <2>3, <2>4, <2>5
<1>4. CASE BeginRequest
  <2>1. /\ pc = "begin" /\ pc' = "settings"
        /\ lProcess' = TRUE /\ ProcessingRequest' = TRUE
        /\ RequestCount' = RequestCount + 1
        /\ UNCHANGED <<net, lib, SkipRequest, fields, pageIsFile, hist>>
    BY <1>4 DEF BeginRequest
  <2>2. MaxRequestToProcess' \in Nat /\ ReloadConfig' \in BOOLEAN
    BY <1>4 DEF BeginRequest, ReloadAppConfig, ControlType
  <2>3. LibType' /\ LibInv' /\ ResponseInv' /\ FieldType' /\ CacheInv' /\ HistType'
    BY <2>1 DEF LibType, LibInv, ResponseInv, FieldType, CacheInv, HistType,
       net, lib, fields, hist
  <2>4. ControlType'
    BY <1>0, <2>1, <2>2 DEF ControlType, Points
  <2>5. ProcessInv' /\ CountInv'
    BY <2>1 DEF ProcessInv, CountInv, ControlType, Ended, lib
  <2> QED BY <2>3, <2>4, <2>5
<1>5. CASE BeginDown
  <2> DEFINE resp == Written(response[current], header, buffer \cup {"down"}, cache)
  <2>1. /\ pc = "begin" /\ pc' = "settings"
        /\ lProcess' = FALSE /\ ProcessingRequest' = FALSE
        /\ FCGX_Finish(resp)
        /\ outcome' = [outcome EXCEPT ![current] = "down"]
        /\ buffer' = {} /\ cache' = [cache EXCEPT !["OutputBuffer"] = {}]
        /\ UNCHANGED <<SkipRequest, RequestCount, loaded, header, pageIsFile,
                       firsts, stops>>
    BY <1>5 DEF BeginDown
  <2>2. MaxRequestToProcess' \in Nat /\ ReloadConfig' \in BOOLEAN
    BY <1>5 DEF BeginDown, ReloadAppConfig, ControlType
  <2>3. /\ current # 0 /\ current \in Requests
        /\ response[current] \in Responses /\ response[current].heads = 0
        /\ response[current].data = {}
        /\ \A f \in Fields : cache[f] \subseteq {current}
        /\ buffer \cup {"down"} \in Pages
    BY <2>1 DEF ProcessInv, LibInv, LibType, ResponseInv, CacheInv, Pages, FieldType
  <2>4. resp \in Responses /\ resp.heads = 1 /\ resp.data \subseteq {current}
    <3> DEFINE page == buffer \cup {"down"}
    <3>1. header \in Headers /\ cache \in [Fields -> SUBSET Requests] /\ page \in Pages
      BY <2>3 DEF FieldType
    <3> HIDE DEF page
    <3>2. /\ response[current] \in Responses /\ response[current].heads = 0
          /\ response[current].data = {} /\ \A f \in Fields : cache[f] \subseteq {current}
      BY <2>3
    <3>3. /\ Written(response[current], header, page, cache) \in Responses
          /\ Written(response[current], header, page, cache).heads = 1
          /\ Written(response[current], header, page, cache).data \subseteq {current}
      BY ONLY <3>1, <3>2, WrittenOnce
    <3> QED BY <3>3 DEF page
  <2> HIDE DEF resp
  <2>5. LibType' /\ LibInv' /\ ResponseInv' /\ current' = 0 /\ g_envp' = g_envp
    BY <2>1, <2>4, FinishKeeps DEF FCGX_Finish
  <2>6. FieldType' /\ CacheInv' /\ HistType'
    BY <2>1, <2>3, <2>5 DEF FieldType, CacheInv, HistType, Pages
  <2>7. ControlType'
    BY <1>0, <2>1, <2>2 DEF ControlType, Points
  <2>8. ProcessInv' /\ CountInv'
    BY <2>1, <2>5 DEF ProcessInv, CountInv, Ended
  <2> QED BY <2>5, <2>6, <2>7, <2>8
<1>6. CASE ReadSettings
  <2>1. PICK d \in EnvData : cache' = [cache EXCEPT !["RequestEnvironment"] = d]
    BY <1>6 DEF ReadSettings
  <2>2. d \subseteq {g_envp} /\ d \in SUBSET Requests
    BY DEF EnvData, EnvLive, LibType
  <2>3. UNCHANGED <<net, lib, lProcess, ProcessingRequest, SkipRequest, limit, loaded,
                    header, buffer, pageIsFile, outcome, stops>>
    BY <1>6 DEF ReadSettings
  <2>4. FieldType' /\ CacheInv'
    BY <2>1, <2>2, <2>3 DEF FieldType, CacheInv, lib
  <2>5. LibType' /\ LibInv' /\ ResponseInv'
    BY <2>3 DEF LibType, LibInv, ResponseInv, net, lib
  <2>6. firsts' \in Nat /\ pc' \in {"first", "skip", "shutdown", "stop"}
    BY <1>6 DEF ReadSettings, HistType
  <2>7. HistType' /\ ControlType'
    BY <1>0, <2>3, <2>6 DEF HistType, ControlType, Points, UserCode, limit
  <2>8. ProcessInv' /\ CountInv'
    BY <1>6, <2>3, <2>6 DEF ReadSettings, ProcessInv, CountInv, Ended, lib, limit
  <2> QED BY <2>4, <2>5, <2>7, <2>8
<1>7. CASE EnvFault \/ Exit
  <2>1. /\ DropCurrent /\ pc' \in Ended
        /\ UNCHANGED <<lProcess, ProcessingRequest, SkipRequest, limit, fields,
                       pageIsFile, hist>>
    BY <1>7 DEF EnvFault, Exit, Ended
  <2>2. LibType' /\ LibInv' /\ ResponseInv' /\ g_envp' = g_envp
    BY <2>1, DropKeeps DEF DropCurrent
  <2>3. FieldType' /\ CacheInv' /\ HistType'
    BY <2>1, <2>2 DEF FieldType, CacheInv, HistType, fields, hist
  <2>4. ControlType'
    BY <1>0, <2>1 DEF ControlType, Points, limit
  <2>5. ProcessInv' /\ CountInv'
    BY <2>1 DEF ProcessInv, CountInv, Ended
  <2> QED BY <2>2, <2>3, <2>4, <2>5
<1>8. CASE SkipResource \/ CallOnRequest
  <2>1. /\ pc = "skip" /\ pc' \in {"wait", "handler"} /\ met' = met
        /\ SkipRequest' \in BOOLEAN /\ header' \in Headers
        /\ RequestCount' \in {RequestCount, RequestCount - 1}
        /\ \E o \in {"skip", "page"} : outcome' = [outcome EXCEPT ![met] = o]
        /\ UNCHANGED <<net, lib, lProcess, ProcessingRequest, MaxRequestToProcess,
                       ReloadConfig, loaded, cache, buffer, pageIsFile, firsts, stops>>
    BY <1>8 DEF SkipResource, CallOnRequest, ControlType, FieldType, Headers,
       net, limit, fields
  <2>2. LibType' /\ LibInv' /\ ResponseInv' /\ FieldType' /\ CacheInv' /\ HistType'
    <3>1. LibType' /\ LibInv' /\ ResponseInv'
      BY <2>1 DEF LibType, LibInv, ResponseInv, net, lib
    <3>2. FieldType' /\ CacheInv'
      BY <2>1 DEF FieldType, CacheInv, lib
    <3>3. outcome' \in [Requests -> {"none", "page", "skip", "down"}]
      BY <2>1 DEF HistType
    <3>4. HistType'
      BY <2>1, <3>3 DEF HistType
    <3> QED BY <3>1, <3>2, <3>4
  <2>3. RequestCount' \in Nat
    BY <2>1 DEF CountInv, ProcessInv, ControlType
  <2>4. ControlType'
    BY <1>0, <2>1, <2>3 DEF ControlType, Points, UserCode
  <2>5. ProcessInv' /\ CountInv'
    BY <2>1 DEF ProcessInv, CountInv, Ended, lib
  <2> QED BY <2>2, <2>4, <2>5
<1> QED BY <1>1, <1>2, <1>3, <1>4, <1>5, <1>6, <1>7, <1>8 DEF Wait

\* An On... method returns.
LEMMA ReturnKeeps == ASSUME IInv, Return PROVE IInv'
<1> USE TypeParts DEF IInv
<1>1. /\ pc \in UserCode /\ pc' \in {"skip", "wait", "stop"} /\ calls' = 0
      /\ pc' = "skip" => pc = "first"
      /\ pc' = "stop" => pc = "shutdown"
      /\ UNCHANGED <<net, lib, lProcess, ProcessingRequest, SkipRequest, limit,
                     fields, pageIsFile, hist>>
  BY DEF Return, UserCode
<1>2. LibType' /\ LibInv' /\ ResponseInv' /\ FieldType' /\ CacheInv' /\ HistType'
  BY <1>1 DEF LibType, LibInv, ResponseInv, FieldType, CacheInv, HistType,
     net, lib, fields, hist
<1>3. ControlType'
  BY <1>1 DEF ControlType, Points, limit
<1>4. ProcessInv' /\ CountInv'
  BY <1>1 DEF ProcessInv, CountInv, UserCode, Ended, lib, limit
<1> QED BY <1>2, <1>3, <1>4

LEMMA NextInv == IInv /\ [Next]_vars => IInv'
<1> SUFFICES ASSUME IInv, [Next]_vars PROVE IInv'
  OBVIOUS
<1>1. CASE UNCHANGED vars
  BY <1>1 DEF vars, net, lib, limit, fields, hist, IInv, TypeOK, LibInv, CacheInv,
     ResponseInv, ProcessInv, CountInv
<1> QED BY <1>1, WaitKeeps, ReturnKeeps, AcceptKeeps, UserKeeps DEF Next

LEMMA Invariance == Spec => []IInv
  BY InitInv, NextInv, PTL DEF Spec

-----------------------------------------------------------------------------
(* What follows for every run. *)

\* Types: RequestCount, for one, never goes below zero, however resource files,
\* kill markers and calls of ShutDownFastCGIEXEAfterResponse follow each other.
THEOREM TypeCorrect == Spec => []TypeOK
<1>1. IInv => TypeOK
  BY DEF IInv
<1> QED BY <1>1, Invariance, PTL

\* No answer contains what belongs to another request.
THEOREM NoLeak == Spec => []NoCrossRequestData
<1>1. IInv => NoCrossRequestData
  BY DEF IInv, ResponseInv, NoCrossRequestData
<1> QED BY <1>1, Invariance, PTL

\* Every completed answer has its one header block.
THEOREM WholeAnswers == Spec => []OneFullResponse
<1>1. IInv => OneFullResponse
  BY DEF IInv, ResponseInv, OneFullResponse
<1> QED BY <1>1, Invariance, PTL

\* WriteOutput never meets freed streams.
THEOREM StreamsLive == Spec => []StreamLive
<1>1. IInv => StreamLive
  BY DEF IInv, LibInv, LibType, TypeOK, ProcessInv, StreamLive, EnvLive
<1> QED BY <1>1, Invariance, PTL

-----------------------------------------------------------------------------
(* The hooks, over the invariant above. *)

\* A worker that has counted a request runs OnFirstRequest before anything else.
HookInv ==
    /\ pc \notin Ended /\ RequestCount > 0 =>
          \/ firsts > 0
          \/ pc = "settings" /\ ProcessingRequest /\ RequestCount = 1
    /\ pc \in {"first", "skip", "handler", "shutdown"} => firsts > 0
    /\ pc = "shutdown" => ~lProcess

\* A step that leaves the counters alone and goes no further towards a hook.
LEMMA QuietStep ==
    ASSUME HookInv, UNCHANGED <<RequestCount, firsts>>,
           \/ pc' = pc /\ pc # "settings" /\ lProcess' = lProcess
           \/ pc \notin Ended \cup {"settings"} /\ pc' \notin UserCode \cup {"skip"}
           \/ pc' \in Ended
           \/ pc = "first" /\ pc' = "skip"
           \/ pc = "skip" /\ pc' = "handler"
    PROVE  HookInv'
  BY DEF HookInv, UserCode, Ended

LEMMA HookNext == ASSUME IInv, HookInv, [Next]_vars PROVE HookInv'
<1> USE TypeParts DEF IInv
<1>1. CASE UNCHANGED vars
  BY <1>1 DEF vars, limit, hist, HookInv
<1>2. CASE ReadSettings
  <2>1. /\ pc = "settings" /\ RequestCount \in Nat /\ firsts \in Nat
        /\ pc' = IF ProcessingRequest
                 THEN IF RequestCount = 1 THEN "first" ELSE "skip"
                 ELSE IF RequestCount > 0 THEN "shutdown" ELSE "stop"
        /\ firsts' = IF ProcessingRequest /\ RequestCount = 1 THEN firsts + 1 ELSE firsts
        /\ UNCHANGED <<lProcess, ProcessingRequest, RequestCount>>
    BY <1>2 DEF ReadSettings, limit, ControlType, HistType
  <2>2. /\ ProcessingRequest => lProcess /\ RequestCount > 0
        /\ ~ProcessingRequest => ~lProcess
    BY <2>1 DEF ProcessInv, CountInv
  <2>3. RequestCount > 0 => firsts' > 0
    BY <2>1 DEF HookInv, Ended
  <2> QED BY <2>1, <2>2, <2>3 DEF HookInv, Ended
<1>3. CASE BeginRequest
  <2>1. /\ pc = "begin" /\ pc' = "settings" /\ ProcessingRequest' = TRUE
        /\ RequestCount' = RequestCount + 1 /\ firsts' = firsts /\ RequestCount \in Nat
    BY <1>3 DEF BeginRequest, hist, ControlType
  <2> QED BY <2>1 DEF HookInv, Ended
<1>4. CASE SkipResource
  <2>1. pc = "skip" /\ pc' = "wait" /\ firsts' = firsts
    BY <1>4 DEF SkipResource
  <2> QED BY <2>1 DEF HookInv
<1>5. CASE UserCall
  <2>1. CASE \E flow \in Flows : Use(flow[1], flow[2])
    <3>1. pc \in UserCode /\ UNCHANGED <<pc, lProcess, RequestCount, firsts>>
      BY <2>1 DEF Use, limit, hist
    <3> QED BY <3>1, QuietStep DEF UserCode
  <2>2. CASE SetHeaderValue \/ Redirect \/ ClearOutputBuffer \/ UserFinish
    <3>1. pc \in UserCode /\ UNCHANGED <<pc, lProcess, RequestCount, firsts>>
      BY <2>2 DEF SetHeaderValue, Redirect, ClearOutputBuffer, UserFinish, limit, hist
    <3> QED BY <3>1, QuietStep DEF UserCode
  <2>3. CASE ShutDownFastCGIEXEAfterResponse
    <3>1. pc \in UserCode /\ UNCHANGED <<pc, lProcess, firsts>>
      BY <2>3 DEF ShutDownFastCGIEXEAfterResponse
    <3> QED BY <3>1 DEF HookInv, UserCode
  <2>4. CASE UserError
    BY <2>4, QuietStep DEF UserError, OnError, limit, hist, Ended
  <2> QED BY <1>5, <2>1, <2>2, <2>3, <2>4 DEF UserCall
<1>6. CASE Return
  <2>1. /\ \/ pc = "first" /\ pc' = "skip"
           \/ pc \in {"handler", "shutdown"} /\ pc' \in {"wait", "stop"}
        /\ UNCHANGED <<RequestCount, firsts>>
    BY <1>6 DEF Return, UserCode, limit, hist
  <2> QED BY <2>1, QuietStep DEF UserCode, Ended
<1>7. CASE Accept
  <2>1. /\ pc = "accept" /\ pc' \in {"accept", "begin", "settings"}
        /\ UNCHANGED <<RequestCount, firsts>>
    BY <1>7 DEF Accept, AcceptReturns, AcceptRejects, AcceptFails, limit, hist
  <2> QED BY <2>1, QuietStep DEF UserCode, Ended
<1>8. CASE WaitFinish \/ CheckLimit \/ BeginDown
  <2>1. /\ pc \in {"wait", "limit", "begin"} /\ pc' \in {"limit", "settings", "accept"}
        /\ UNCHANGED <<RequestCount, firsts>>
    BY <1>8 DEF WaitFinish, CheckLimit, BeginDown, limit, hist
  <2> QED BY <2>1, QuietStep DEF UserCode, Ended
<1>9. CASE WaitFinishFails \/ EnvFault \/ Exit
  <2>1. pc' \in Ended /\ UNCHANGED <<RequestCount, firsts>>
    BY <1>9 DEF WaitFinishFails, OnError, EnvFault, Exit, Ended, limit, hist
  <2> QED BY <2>1, QuietStep
<1>10. CASE CallOnRequest
  <2>1. pc = "skip" /\ pc' = "handler" /\ UNCHANGED <<RequestCount, firsts>>
    BY <1>10 DEF CallOnRequest, limit
  <2> QED BY <2>1, QuietStep
<1> QED BY <1>1, <1>2, <1>3, <1>4, <1>5, <1>6, <1>7, <1>8, <1>9, <1>10 DEF Next, Wait

\* OnRequest and OnShutdown run only after OnFirstRequest, and OnShutdown only
\* once the last request has been given back.
THEOREM HooksInOrder == Spec => []HookOrder
<1>1. Init => HookInv
  BY DEF Init, HookInv
<1>2. IInv /\ IInv' /\ HookInv /\ [Next]_vars => HookInv'
  BY HookNext
<1>3. IInv /\ HookInv => HookOrder
  BY DEF IInv, HookInv, HookOrder, ProcessInv, Ended
<1> QED BY <1>1, <1>2, <1>3, Invariance, PTL DEF Spec

-----------------------------------------------------------------------------
(* The kill marker. *)

\* The request that met the marker is the last one and is settled.
KillInv ==
    \A r \in Requests : outcome[r] = "down" =>
        /\ r = met /\ current = 0 /\ ~ProcessingRequest
        /\ pc \in {"settings", "shutdown", "stop"} \cup Ended
        /\ response[r].heads = 1 /\ response[r].page = {"down"} /\ response[r].data = {}

\* The down page, written into an object just reset, is all of the answer.
LEMMA WrittenDown ==
    ASSUME NEW resp \in Responses, resp.heads = 0, resp.data = {},
           NEW c \in [Fields -> SUBSET Requests], \A f \in Fields : c[f] = {},
           NEW b, b = {"down"}
    PROVE  LET w == Written(resp, NoHeader, b, c)
           IN  w.heads = 1 /\ w.page = {"down"} /\ w.data = {}
<1>1. {"ContentType", "ResponseHeader", "OutputBuffer"} \subseteq Fields
  BY DEF Fields, Sinks
<1>2. c["ContentType"] = {} /\ c["ResponseHeader"] = {} /\ c["OutputBuffer"] = {}
  BY <1>1
<1>3. ~Redirected(NoHeader)
  BY DEF Redirected, NoHeader
<1> QED BY <1>2, <1>3 DEF Written

LEMMA KillNext == ASSUME IInv, KillInv, [Next]_vars PROVE KillInv'
<1> USE TypeParts DEF IInv
<1>1. CASE UNCHANGED vars
  BY <1>1 DEF vars, net, lib, hist, KillInv
<1>2. CASE BeginDown
  <2> DEFINE resp == Written(response[current], header, buffer \cup {"down"}, cache)
  <2>1. /\ pc = "begin" /\ pc' = "settings" /\ ProcessingRequest' = FALSE
        /\ FCGX_Finish(resp) /\ outcome' = [outcome EXCEPT ![current] = "down"]
    BY <1>2 DEF BeginDown
  <2>2. /\ current \in Requests /\ current = met /\ response[current] \in Responses
        /\ response[current].heads = 0 /\ response[current].data = {}
        /\ header = NoHeader /\ buffer \cup {"down"} = {"down"}
        /\ \A f \in Fields : cache[f] = {}
        /\ cache \in [Fields -> SUBSET Requests]
    BY <2>1 DEF ProcessInv, LibInv, LibType, ResponseInv, FieldType
  <2>3. resp.heads = 1 /\ resp.page = {"down"} /\ resp.data = {}
    <3> DEFINE b == buffer \cup {"down"}
    <3>1. b = {"down"}
      BY <2>2
    <3> HIDE DEF b
    <3>2. /\ Written(response[current], NoHeader, b, cache).heads = 1
          /\ Written(response[current], NoHeader, b, cache).page = {"down"}
          /\ Written(response[current], NoHeader, b, cache).data = {}
      BY ONLY <2>2, <3>1, WrittenDown
    <3> QED BY <2>2, <3>2 DEF b
  <2>4. resp \in Responses
    <3> DEFINE b == buffer \cup {"down"}
    <3>1. b \in Pages
      BY <2>2 DEF Pages
    <3> HIDE DEF b
    <3>2. header \in Headers /\ \A f \in Fields : cache[f] \subseteq {current}
      BY <2>2 DEF FieldType
    <3>3. Written(response[current], header, b, cache) \in Responses
      BY ONLY <2>2, <3>1, <3>2, WrittenOnce
    <3> QED BY <3>3 DEF b
  <2> HIDE DEF resp
  <2>5. PICK e \in {"complete", "dropped"} :
             response' = [response EXCEPT ![current] = Settled(resp, e)]
    BY <2>1, <2>2 DEF FCGX_Finish
  <2>6. /\ Settled(resp, e).heads = 1 /\ Settled(resp, e).page = {"down"}
        /\ Settled(resp, e).data = {}
    BY <2>3, <2>4, SettledType
  <2>7. current' = 0 /\ met' = met
    BY <2>1 DEF FCGX_Finish
  <2>8. \A r \in Requests : outcome'[r] = "down" => r = current
    BY <2>1 DEF KillInv, HistType, Ended
  <2>9. response'[current] = Settled(resp, e)
    BY <2>2, <2>5 DEF LibType
  <2> QED BY <2>1, <2>2, <2>6, <2>7, <2>8, <2>9 DEF KillInv
<1>3. CASE SkipResource \/ CallOnRequest
  <2>1. pc = "skip" /\ \A r \in Requests : outcome'[r] = "down" => outcome[r] = "down"
    BY <1>3 DEF SkipResource, CallOnRequest, HistType
  <2> QED BY <2>1 DEF KillInv, Ended
<1>4. ASSUME outcome' = outcome,
             \/ pc \in {"wait", "limit", "accept", "begin", "first", "skip", "handler"}
             \/ /\ pc' \in {"settings", "shutdown", "stop"} \cup Ended
                /\ UNCHANGED <<met, response, current>>
                /\ ProcessingRequest' => ProcessingRequest
                /\ current = 0
             \/ current # 0
      PROVE  KillInv'
  BY <1>4 DEF KillInv, Ended
<1>5. CASE WaitFinish \/ WaitFinishFails \/ CheckLimit \/ BeginRequest
  BY <1>4, <1>5 DEF WaitFinish, WaitFinishFails, OnError, CheckLimit, BeginRequest, hist
<1>6. CASE Accept
  BY <1>4, <1>6 DEF Accept, AcceptReturns, AcceptRejects, AcceptFails, hist
<1>7. CASE ReadSettings
  <2>1. ~ProcessingRequest => current = 0
    BY <1>7 DEF ReadSettings, ProcessInv, Ended
  <2>2. /\ outcome' = outcome /\ UNCHANGED <<met, response, current, ProcessingRequest>>
        /\ ~ProcessingRequest => pc' \in {"shutdown", "stop"}
    BY <1>7 DEF ReadSettings, net, lib
  <2> QED BY <2>1, <2>2 DEF KillInv
<1>8. CASE EnvFault \/ Exit
  <2>1. /\ outcome' = outcome /\ pc' \in Ended /\ met' = met
        /\ UNCHANGED ProcessingRequest
        /\ current = 0 => UNCHANGED <<response, current>>
    BY <1>8 DEF EnvFault, Exit, DropCurrent, Ended, hist
  <2> QED BY <1>4, <2>1
<1>9. CASE Return
  BY <1>4, <1>9 DEF Return, UserCode, net, lib, hist
<1>10. CASE UserCall
  <2>1. CASE pc # "shutdown"
    <3>1. outcome' = outcome /\ pc \in {"first", "handler"}
      BY <1>10, <2>1 DEF UserCall, Use, SetHeaderValue, Redirect, ClearOutputBuffer,
         UserFinish, ShutDownFastCGIEXEAfterResponse, UserError, OnError, hist, UserCode
    <3> QED BY <1>4, <3>1
  <2>2. CASE pc = "shutdown"
    <3>1. current = 0 /\ ~ProcessingRequest
      BY <2>2 DEF ProcessInv, Ended
    <3>2. CASE UserFinish
      BY <1>4, <2>2, <3>1, <3>2 DEF UserFinish, FinishOk, Finish, net, lib, hist
    <3>3. CASE UserError
      BY <1>4, <2>2, <3>1, <3>3 DEF UserError, OnError, DropCurrent, hist, Ended
    <3>4. CASE ~UserFinish /\ ~UserError
      <4>1. /\ pc' = pc /\ outcome' = outcome
            /\ UNCHANGED <<met, response, current, ProcessingRequest>>
        BY <1>10, <3>4 DEF UserCall, Use, SetHeaderValue, Redirect, ClearOutputBuffer,
           ShutDownFastCGIEXEAfterResponse, net, lib, hist
      <4> QED BY <1>4, <2>2, <3>1, <4>1
    <3> QED BY <3>2, <3>3, <3>4
  <2> QED BY <2>1, <2>2
<1> QED BY <1>1, <1>2, <1>3, <1>5, <1>6, <1>7, <1>8, <1>9, <1>10 DEF Next, Wait

\* A request that met the kill marker is the last, reaches none of the
\* application's code, and is answered with the down page alone.
THEOREM KilledWorkerAnswers == Spec => []KillAnswersDown
<1>1. Init => KillInv
  BY DEF Init, KillInv
<1>2. IInv /\ KillInv /\ [Next]_vars => KillInv'
  BY KillNext
<1>3. KillInv => KillAnswersDown
  BY DEF KillInv, KillAnswersDown, Ended
<1> QED BY <1>1, <1>2, <1>3, Invariance, PTL DEF Spec

-----------------------------------------------------------------------------
(* RequestCount and the limit. *)

\* Wait judges a request once, after it was met; the process that was asked to stop
\* gets no further than the next look at the limit, under which it accepts.
LimitInv ==
    /\ \A r \in Requests :
          \/ r > met
          \/ r = met /\ pc \in {"begin", "first", "skip"}
          \/ r = met /\ pc = "settings" /\ lProcess
          => outcome[r] = "none"
    /\ lProcess => met > 0
    /\ CountAccounting
    /\ stops > 0 /\ pc \notin Ended =>
          MaxRequestToProcess = 1 /\ pc \notin {"accept", "begin"}
    /\ pc = "accept" => MaxRequestToProcess = 0 \/ RequestCount < MaxRequestToProcess

LEMMA PagesCard ==
    ASSUME NEW o \in [Requests -> {"none", "page", "skip", "down"}]
    PROVE  IsFiniteSet(PagesBuilt(o)) /\ Cardinality(PagesBuilt(o)) \in Nat
<1>1. IsFiniteSet(Requests)
  BY FS_Interval
<1>2. PagesBuilt(o) \subseteq Requests
  BY DEF PagesBuilt
<1> QED BY <1>1, <1>2, FS_Subset, FS_CardinalityType

\* A request judged "page" is one page more, any other judgement none.
LEMMA PagesJudged ==
    ASSUME NEW o \in [Requests -> {"none", "page", "skip", "down"}],
           NEW r \in Requests, o[r] = "none", NEW j \in {"page", "skip", "down"}
    PROVE  LET now == Cardinality(PagesBuilt([o EXCEPT ![r] = j]))
           IN  IF j = "page" THEN now = Cardinality(PagesBuilt(o)) + 1
               ELSE now = Cardinality(PagesBuilt(o))
<1>1. r \notin PagesBuilt(o) /\ IsFiniteSet(PagesBuilt(o))
  BY PagesCard DEF PagesBuilt
<1>2. CASE j = "page"
  <2>1. PagesBuilt([o EXCEPT ![r] = j]) = PagesBuilt(o) \cup {r}
    BY <1>2 DEF PagesBuilt
  <2> QED BY <1>1, <1>2, <2>1, FS_AddElement
<1>3. CASE j # "page"
  <2>1. PagesBuilt([o EXCEPT ![r] = j]) = PagesBuilt(o)
    BY <1>3 DEF PagesBuilt
  <2> QED BY <1>3, <2>1
<1> QED BY <1>2, <1>3

\* A call of the application counts only when it asks for the end.
LEMMA UserCounts ==
    ASSUME IInv, LimitInv, UserCall PROVE LimitInv'
<1> USE TypeParts DEF IInv
<1>1. /\ pc \in {"first", "handler", "shutdown"} /\ UNCHANGED <<met, outcome, lProcess>>
  BY DEF UserCall, Use, SetHeaderValue, Redirect, ClearOutputBuffer, UserFinish, FinishOk,
     Finish, FCGX_Finish, ShutDownFastCGIEXEAfterResponse, UserError, OnError, DropCurrent,
     UserCode, net, lib, hist
<1>2. CASE UserError
  <2>1. pc' = "exited"
    BY <1>2 DEF UserError, OnError
  <2> QED BY <1>1, <2>1 DEF LimitInv, CountAccounting, Ended
<1>3. CASE ShutDownFastCGIEXEAfterResponse
  <2>1. /\ stops' = stops + 1 /\ MaxRequestToProcess' = 1
        /\ RequestCount' = RequestCount + 1 /\ pc' = pc
    BY <1>3 DEF ShutDownFastCGIEXEAfterResponse
  <2>2. Cardinality(PagesBuilt(outcome)) \in Nat
    BY PagesCard DEF HistType
  <2>3. CountAccounting'
    BY <1>1, <2>1, <2>2 DEF LimitInv, CountAccounting, Unjudged, Ended, HistType, ControlType
  <2> QED BY <1>1, <2>1, <2>3 DEF LimitInv, Ended
<1>4. CASE ~UserError /\ ~ShutDownFastCGIEXEAfterResponse
  <2>1. UNCHANGED <<pc, stops, MaxRequestToProcess, RequestCount>>
    BY <1>4 DEF UserCall, Use, SetHeaderValue, Redirect, ClearOutputBuffer, UserFinish,
       limit, hist
  <2> QED BY <1>1, <2>1 DEF LimitInv, CountAccounting, Unjudged
<1> QED BY <1>2, <1>3, <1>4

LEMMA LimitNext == ASSUME IInv, LimitInv, [Next]_vars PROVE LimitInv'
<1> USE TypeParts DEF IInv
<1>0. Cardinality(PagesBuilt(outcome)) \in Nat
  BY PagesCard DEF HistType
<1>1. CASE UNCHANGED vars
  BY <1>1 DEF vars, net, limit, hist, LimitInv, CountAccounting, Unjudged
<1>2. CASE UserCall
  BY <1>2, UserCounts
<1>3. CASE pc' \in Ended /\ UNCHANGED <<met, outcome, lProcess>>
  BY <1>3 DEF LimitInv, CountAccounting, Ended
<1>4. CASE WaitFinish
  BY <1>4 DEF WaitFinish, FinishOk, Finish, FCGX_Finish, net, limit, hist, LimitInv,
     CountAccounting, Unjudged, Ended
<1>5. CASE WaitFinishFails
  BY <1>3, <1>5 DEF WaitFinishFails, OnError, Finish, FCGX_Finish, DropCurrent, net, hist, Ended
<1>6. CASE CheckLimit
  <2>1. /\ pc = "limit" /\ UNCHANGED <<met, outcome, stops, RequestCount, MaxRequestToProcess>>
        /\ pc' = IF LimitReached THEN "settings" ELSE "accept"
        /\ lProcess' => lProcess /\ pc' # "settings"
    BY <1>6 DEF CheckLimit, FCGX_Finish, net, limit, hist
  <2>2. RequestCount = Cardinality(PagesBuilt(outcome)) + stops
    BY <1>0, <2>1 DEF LimitInv, CountAccounting, Unjudged, Ended, HistType, ControlType
  <2>3. stops > 0 => LimitReached
    BY <1>0, <2>1, <2>2 DEF LimitInv, LimitReached, Ended, HistType
  <2>4. ~LimitReached => MaxRequestToProcess = 0 \/ RequestCount < MaxRequestToProcess
    BY DEF LimitReached, ControlType
  <2> QED BY <2>1, <2>2, <2>3, <2>4 DEF LimitInv, CountAccounting, Unjudged, Ended, HistType
<1>7. CASE Accept
  BY <1>7 DEF Accept, AcceptReturns, AcceptRejects, AcceptFails, limit, hist, net, LimitInv,
     CountAccounting, Unjudged, Ended, LibType, HistType
<1>8. CASE BeginRequest
  <2>1. /\ pc = "begin" /\ pc' = "settings" /\ RequestCount' = RequestCount + 1
        /\ lProcess' = TRUE /\ UNCHANGED <<met, outcome, stops>>
    BY <1>8 DEF BeginRequest, net, hist
  <2>2. met > 0
    BY <2>1 DEF ProcessInv, LibInv, LibType
  <2> QED BY <1>0, <2>1, <2>2 DEF LimitInv, CountAccounting, Unjudged, Ended, HistType
<1>9. CASE BeginDown
  <2>1. /\ pc = "begin" /\ pc' = "settings" /\ lProcess' = FALSE
        /\ outcome' = [outcome EXCEPT ![current] = "down"]
        /\ UNCHANGED <<met, stops, RequestCount>>
    BY <1>9 DEF BeginDown, FCGX_Finish
  <2>2. current \in Requests /\ current = met /\ outcome[current] = "none"
    BY <2>1 DEF LimitInv, ProcessInv, LibInv, LibType
  <2>3. Cardinality(PagesBuilt(outcome')) = Cardinality(PagesBuilt(outcome))
    BY <1>0, <2>1, <2>2, PagesJudged DEF HistType
  <2> QED BY <2>1, <2>2, <2>3 DEF LimitInv, CountAccounting, Unjudged, Ended, LibType, HistType
<1>10. CASE ReadSettings
  <2>1. /\ pc = "settings" /\ UNCHANGED <<met, outcome, stops, RequestCount, lProcess,
                                          MaxRequestToProcess, ProcessingRequest>>
        /\ pc' \in IF ProcessingRequest THEN {"first", "skip"} ELSE {"shutdown", "stop"}
    BY <1>10 DEF ReadSettings, net, limit, hist
  <2>2. ProcessingRequest <=> lProcess
    BY <2>1 DEF ProcessInv, ControlType
  <2> QED BY <2>1, <2>2 DEF LimitInv, CountAccounting, Unjudged, Ended
<1>11. CASE EnvFault \/ Exit
  BY <1>3, <1>11 DEF EnvFault, Exit, DropCurrent, hist, Ended
<1>12. CASE SkipResource \/ CallOnRequest
  <2>1. /\ pc = "skip" /\ pc' \in {"wait", "handler"} /\ lProcess /\ UNCHANGED <<met, stops, lProcess>>
        /\ UNCHANGED MaxRequestToProcess
    BY <1>12 DEF SkipResource, CallOnRequest, net, limit, hist, ProcessInv
  <2>2. met \in Requests /\ outcome[met] = "none"
    BY <2>1 DEF LimitInv, LibType
  <2>3. CASE SkipResource
    <3>1. outcome' = [outcome EXCEPT ![met] = "skip"] /\ RequestCount' = RequestCount - 1
      BY <2>3 DEF SkipResource
    <3>2. Cardinality(PagesBuilt(outcome')) = Cardinality(PagesBuilt(outcome))
      BY <2>2, <3>1, PagesJudged DEF HistType
    <3> QED BY <1>0, <2>1, <2>2, <3>1, <3>2 DEF LimitInv, CountAccounting, Unjudged, Ended,
               LibType, HistType, ControlType
  <2>4. CASE CallOnRequest
    <3>1. outcome' = [outcome EXCEPT ![met] = "page"] /\ RequestCount' = RequestCount
      BY <2>4 DEF CallOnRequest, limit
    <3>2. Cardinality(PagesBuilt(outcome')) = Cardinality(PagesBuilt(outcome)) + 1
      BY <2>2, <3>1, PagesJudged DEF HistType
    <3> QED BY <1>0, <2>1, <2>2, <3>1, <3>2 DEF LimitInv, CountAccounting, Unjudged, Ended,
               LibType, HistType, ControlType
  <2> QED BY <1>12, <2>3, <2>4
<1>13. CASE Return
  BY <1>13 DEF Return, UserCode, net, limit, hist, LimitInv, CountAccounting, Unjudged, Ended
<1> QED BY <1>1, <1>2, <1>4, <1>5, <1>6, <1>7, <1>8, <1>9, <1>10, <1>11, <1>12, <1>13
        DEF Next, Wait

LEMMA LimitInvariance == Spec => []LimitInv
<1>1. Init => LimitInv
  <2> SUFFICES ASSUME Init PROVE LimitInv
    OBVIOUS
  <2>1. Cardinality(PagesBuilt(outcome)) = 0
    <3>1. PagesBuilt(outcome) = {}
      BY DEF Init, PagesBuilt
    <3> QED BY <3>1, FS_EmptySet
  <2> QED BY <2>1 DEF Init, LimitInv, CountAccounting, Unjudged, Ended
<1>2. IInv /\ LimitInv /\ [Next]_vars => LimitInv'
  BY LimitNext
<1> QED BY <1>1, <1>2, Invariance, PTL DEF Spec

\* RequestCount is the number of pages built, plus the calls that asked for the end, plus
\* the request counted and not judged yet; resource files leave no trace in it.
THEOREM CountIsRight == Spec => []CountAccounting
<1>1. LimitInv => CountAccounting
  BY DEF LimitInv
<1> QED BY <1>1, LimitInvariance, PTL

\* No request is taken at the limit or above it, and none after the process was asked to
\* stop.
THEOREM LimitIsKept == Spec => StopsAtLimit
<1> DEFINE Kept == met' # met =>
              /\ stops = 0
              /\ \/ MaxRequestToProcess = 0
                 \/ Cardinality(PagesBuilt(outcome)) < MaxRequestToProcess
<1>1. ASSUME IInv, LimitInv, [Next]_vars PROVE [Kept]_vars
  <2> SUFFICES ASSUME met' # met PROVE Kept
    OBVIOUS
  <2>1. pc = "accept"
    BY <1>1 DEF Next, Wait, Return, Accept, UserCall, WaitFinish, WaitFinishFails, CheckLimit,
       BeginRequest, BeginDown, ReadSettings, EnvFault, SkipResource, CallOnRequest, Exit,
       AcceptReturns, AcceptRejects, FinishOk, Finish, FCGX_Finish, OnError, DropCurrent,
       Use, SetHeaderValue, Redirect, ClearOutputBuffer, UserFinish, UserError,
       ShutDownFastCGIEXEAfterResponse, vars, net, AcceptFails
  <2>2. RequestCount = Cardinality(PagesBuilt(outcome)) + stops + 0 /\ stops = 0
    BY <1>1, <2>1, TypeParts DEF IInv, LimitInv, CountAccounting, Unjudged, Ended, HistType
  <2>3. Cardinality(PagesBuilt(outcome)) \in Nat
    BY <1>1, PagesCard, TypeParts DEF IInv, HistType
  <2> QED BY <1>1, <2>1, <2>2, <2>3 DEF LimitInv
<1> QED BY <1>1, Invariance, LimitInvariance, PTL DEF Spec, StopsAtLimit

-----------------------------------------------------------------------------
(* Errors of the application. *)

\* What was written for the error page.
LEMMA WrittenError ==
    ASSUME NEW resp \in Responses, resp.heads = 0, NEW h \in Headers,
           NEW c \in [Fields -> SUBSET Requests]
    PROVE  LET w == Written(resp, h, {"error"}, c)
           IN  w.heads = 1 /\ w.page \subseteq {"error"}
  BY DEF Written

LEMMA ErrorStep ==
    ASSUME IInv, WaitFinishFails \/ UserError, current # 0
    PROVE  LET answer == response'[current]
           IN  IF header.bad THEN answer.heads = 0 /\ answer.state = "dropped"
               ELSE answer.heads = 1 /\ answer.page \subseteq {"error"}
<1> USE TypeParts DEF IInv
<1>1. OnError /\ ProcessingRequest
  BY DEF WaitFinishFails, UserError, UserCode, ProcessInv, Ended
<1>2. /\ current \in Requests /\ current = g_envp /\ response[current] \in Responses
      /\ response[current].heads = 0 /\ response[current].data = {}
  BY DEF LibInv, LibType, ResponseInv
<1>3. CASE header.bad
  <2>1. response' = [response EXCEPT ![current] = Settled(response[current], "dropped")]
    BY <1>1, <1>3 DEF OnError, DropCurrent
  <2>2. /\ Settled(response[current], "dropped").heads = 0
        /\ Settled(response[current], "dropped").state = "dropped"
    BY <1>2, SettledType
  <2> QED BY <1>2, <1>3, <2>1, <2>2 DEF LibType
<1>4. CASE ~header.bad
  <2> DEFINE clean == [cache EXCEPT !["OutputBuffer"] = {}]
             resp == Written(response[current], header, {"error"}, clean)
  <2>1. /\ clean \in [Fields -> SUBSET Requests]
        /\ \A f \in Fields : clean[f] \subseteq {current}
        /\ {"error"} \in Pages
    BY <1>2 DEF CacheInv, FieldType, Pages
  <2>2. FCGX_Finish(resp)
    BY <1>1, <1>4 DEF OnError, Finish
  <2> HIDE DEF clean
  <2>3. resp \in Responses
    BY <1>2, <2>1, WrittenOnce DEF FieldType
  <2>6. resp.heads = 1 /\ resp.page \subseteq {"error"}
    BY <1>2, <2>1, WrittenError DEF FieldType
  <2> HIDE DEF resp
  <2>4. PICK s \in {"complete", "dropped"} :
             response' = [response EXCEPT ![current] = Settled(resp, s)]
    BY <2>2 DEF FCGX_Finish
  <2>5. Settled(resp, s).heads = 1 /\ Settled(resp, s).page \subseteq {"error"}
    BY <2>3, <2>6, SettledType
  <2> QED BY <1>2, <1>4, <2>4, <2>5 DEF LibType
<1> QED BY <1>3, <1>4

\* An error that the application does not catch is answered by the error page and nothing
\* else, or, when a header value cannot be printed, not at all.
THEOREM ErrorsAnswered == Spec => ErrorIsAnswered
<1>1. IInv => ((WaitFinishFails \/ UserError) /\ current # 0 =>
                  LET answer == response'[current]
                  IN  IF header.bad THEN answer.heads = 0 /\ answer.state = "dropped"
                      ELSE answer.heads = 1 /\ answer.page \subseteq {"error"})
  BY ErrorStep
<1> QED BY <1>1, Invariance, PTL DEF ErrorIsAnswered

-----------------------------------------------------------------------------
(* The worker implements RequestProtocol. *)

\* What a step does that the web server could notice: nothing, and the process
\* ends only when it holds no request ...
NetQuiet == UNCHANGED net /\ (pc' \in Ended => current = 0)

\* ... or the request that is held is answered or lost ...
NetSettle ==
    /\ current # 0
    /\ met' = met
    /\ \E x \in [state : {"complete", "dropped"}, heads : Nat, data : SUBSET Nat, page : Pages] :
          response' = [response EXCEPT ![current] = x]

\* ... or another request is met.
NetMeets ==
    /\ current = 0 /\ pc' \notin Ended
    /\ met < N /\ met' = met + 1
    /\ \E s \in {"open", "dropped"} :
          response' = [response EXCEPT ![met + 1] = Settled(@, s)]

LEMMA SettledShape ==
    ASSUME NEW resp \in Responses, NEW s \in {"complete", "dropped"}
    PROVE  Settled(resp, s) \in
              [state : {"complete", "dropped"}, heads : Nat, data : SUBSET Nat, page : Pages]
  BY DEF Settled, Responses

\* A whole response settles the request whose streams exist.
LEMMA FinishSettles ==
    ASSUME NEW resp \in Responses, FCGX_Finish(resp), current # 0
    PROVE  NetSettle
  BY SettledShape DEF FCGX_Finish, NetSettle

LEMMA DropSettles ==
    ASSUME IInv, DropCurrent
    PROVE  NetSettle \/ (current = 0 /\ UNCHANGED net)
<1>1. current # 0 => response[current] \in Responses
  BY TypeParts DEF IInv, LibType
<1>2. CASE current # 0
  BY <1>1, <1>2, SettledShape DEF DropCurrent, NetSettle
<1>3. CASE current = 0
  BY <1>3 DEF DropCurrent, net
<1> QED BY <1>2, <1>3

\* Finish, called by Wait, the application, or OnError.
LEMMA FinishNet ==
    ASSUME IInv, ProcessingRequest, pc \notin Ended \cup {"begin"},
           NEW b \in Pages, NEW c \in [Fields -> SUBSET Requests],
           \A f \in Fields : c[f] \subseteq {g_envp},
           Finish(header, b, c)
    PROVE  NetSettle
<1> USE TypeParts DEF IInv
<1>1. current # 0 /\ current \in Requests /\ current = g_envp
  BY DEF ProcessInv, LibInv, LibType
<1>2. /\ response[current] \in Responses
      /\ response[current].heads = 0 /\ response[current].data = {}
  BY <1>1 DEF ResponseInv, LibType
<1>3. Written(response[current], header, b, c) \in Responses
  BY <1>2, WrittenOnce DEF FieldType
<1>4. FCGX_Finish(Written(response[current], header, b, c))
  BY DEF Finish
<1> QED BY <1>1, <1>3, <1>4, FinishSettles

LEMMA NetStep ==
    ASSUME IInv, Next
    PROVE  pc \notin Ended /\ (NetQuiet \/ NetSettle \/ NetMeets)
<1> USE TypeParts DEF IInv
<1>1. CASE FinishOk /\ pc' \notin Ended /\ pc \notin Ended \cup {"begin"}
  <2>1. CASE ProcessingRequest
    BY <1>1, <2>1, FinishNet DEF FinishOk, CacheInv, FieldType
  <2>2. CASE ~ProcessingRequest
    BY <1>1, <2>2 DEF FinishOk, Finish, NetQuiet
  <2> QED BY <1>1, <2>1, <2>2
<1>2. CASE OnError /\ pc \notin Ended \cup {"begin"}
  <2>1. CASE ProcessingRequest /\ ~header.bad
    <3> DEFINE clean == [cache EXCEPT !["OutputBuffer"] = {}]
    <3>1. /\ clean \in [Fields -> SUBSET Requests]
          /\ \A f \in Fields : clean[f] \subseteq {g_envp}
          /\ {"error"} \in Pages
      BY DEF CacheInv, FieldType, Pages
    <3>2. Finish(header, {"error"}, clean)
      BY <1>2, <2>1 DEF OnError
    <3> HIDE DEF clean
    <3> QED BY <1>2, <2>1, <3>1, <3>2, FinishNet
  <2>2. CASE ~(ProcessingRequest /\ ~header.bad)
    BY <1>2, <2>2, DropSettles DEF OnError, NetQuiet
  <2> QED BY <2>1, <2>2
<1>3. CASE Accept
  <2>1. pc = "accept" /\ current = 0
    BY <1>3 DEF Accept, AcceptReturns, AcceptRejects, AcceptFails, ProcessInv, Ended
  <2>2. CASE AcceptReturns \/ AcceptRejects
    BY <2>1, <2>2 DEF AcceptReturns, AcceptRejects, NetMeets, Ended
  <2>3. CASE AcceptFails
    BY <2>1, <2>3 DEF AcceptFails, NetQuiet, Ended
  <2> QED BY <1>3, <2>1, <2>2, <2>3 DEF Accept, Ended
<1>4. CASE CheckLimit
  <2>1. pc = "limit" /\ current = 0
    BY <1>4 DEF CheckLimit, ProcessInv, Ended
  <2> QED BY <1>4, <2>1 DEF CheckLimit, FCGX_Finish, NetQuiet, net, Ended
<1>5. CASE BeginDown
  <2>1. /\ pc = "begin" /\ pc' = "settings"
        /\ FCGX_Finish(Written(response[current], header, buffer \cup {"down"}, cache))
    BY <1>5 DEF BeginDown
  <2>2. /\ current # 0 /\ current \in Requests /\ response[current] \in Responses
        /\ response[current].heads = 0 /\ response[current].data = {}
        /\ current = g_envp /\ buffer \cup {"down"} \in Pages
    BY <2>1 DEF ProcessInv, LibInv, LibType, ResponseInv, FieldType, Pages
  <2>3. Written(response[current], header, buffer \cup {"down"}, cache) \in Responses
    <3> DEFINE b == buffer \cup {"down"}
    <3>1. b \in Pages
      BY <2>2
    <3> HIDE DEF b
    <3>2. Written(response[current], header, b, cache) \in Responses
      BY <2>2, <3>1, WrittenOnce DEF FieldType, CacheInv
    <3> QED BY <3>2 DEF b
  <2> QED BY <2>1, <2>2, <2>3, FinishSettles DEF Ended
<1>6. CASE EnvFault \/ Exit
  <2>1. pc \notin Ended /\ DropCurrent
    BY <1>6 DEF EnvFault, Exit, UserCode, Ended
  <2> QED BY <2>1, DropSettles DEF NetQuiet
<1>7. CASE BeginRequest \/ ReadSettings \/ SkipResource \/ CallOnRequest
  BY <1>7 DEF BeginRequest, ReadSettings, SkipResource, CallOnRequest, NetQuiet, Ended
<1>8. CASE Return
  BY <1>8 DEF Return, UserCode, NetQuiet, Ended
<1>9. CASE WaitFinish
  BY <1>1, <1>9 DEF WaitFinish, Ended
<1>10. CASE WaitFinishFails
  BY <1>2, <1>10 DEF WaitFinishFails, Ended
<1>11. CASE UserCall
  <2>1. CASE UserFinish
    BY <1>1, <2>1 DEF UserFinish, UserCode, Ended
  <2>2. CASE UserError
    BY <1>2, <2>2 DEF UserError, UserCode, Ended
  <2>3. CASE ~UserFinish /\ ~UserError
    <3>1. pc \in UserCode /\ pc' = pc /\ UNCHANGED net
      BY <1>11, <2>3 DEF UserCall, Use, SetHeaderValue, Redirect, ClearOutputBuffer,
         ShutDownFastCGIEXEAfterResponse
    <3> QED BY <3>1 DEF NetQuiet, UserCode, Ended
  <2> QED BY <2>1, <2>2, <2>3
<1> QED BY <1>3, <1>4, <1>5, <1>6, <1>7, <1>8, <1>9, <1>10, <1>11 DEF Next, Wait

LEMMA ProtocolStep ==
    ASSUME IInv, IInv', [Next]_vars
    PROVE  [Protocol!Next]_(Protocol!vars)
<1> USE TypeParts DEF IInv
<1> DEFINE fate == [r \in Requests |->
                     CASE response[r].state = "pending"  -> "pending"
                       [] response[r].state = "open"     -> "held"
                       [] response[r].state = "complete" -> "answered"
                       [] OTHER                          -> "lost"]
           running == pc \notin Ended
<1>0. CASE UNCHANGED vars
  <2>1. UNCHANGED <<met, response, pc>>
    BY <1>0 DEF vars, net
  <2> QED BY <2>1 DEF Protocol!vars
<1>1. Next => pc \notin Ended
  BY NetStep
<1>2. CASE Next /\ NetQuiet
  <2>1. CASE pc' \in Ended
    <3>1. \A r \in Requests : response[r].state # "open"
      BY <1>2, <2>1 DEF NetQuiet, ResponseInv
    <3>2. Protocol!Free
      BY <3>1 DEF Protocol!Free, Protocol!Requests
    <3>3. Protocol!Stop
      BY <1>1, <1>2, <2>1, <3>2 DEF NetQuiet, net, Protocol!Stop
    <3> QED BY <3>3 DEF Protocol!Next
  <2>2. CASE pc' \notin Ended
    BY <1>1, <1>2, <2>2 DEF NetQuiet, net, Protocol!vars
  <2> QED BY <2>1, <2>2
<1>3. CASE Next /\ NetSettle
  <2>1. current \in Requests /\ response[current].state = "open"
    BY <1>3 DEF NetSettle, ResponseInv, LibType
  <2>2. PICK x \in [state : {"complete", "dropped"}, heads : Nat, data : SUBSET Nat, page : Pages] :
             response' = [response EXCEPT ![current] = x]
    BY <1>3 DEF NetSettle
  <2>3. /\ response'[current].state \in {"complete", "dropped"}
        /\ \A r \in Requests \ {current} : response'[r] = response[r]
    BY <2>1, <2>2 DEF LibType
  <2>4. \E r \in Protocol!Requests : Protocol!Settle(r)
    <3>1. fate[current] = "held"
      BY <2>1
    <3>2. \E f \in {"answered", "lost"} : fate' = [fate EXCEPT ![current] = f]
      <4>1. \E f \in {"answered", "lost"} : fate'[current] = f
        BY <2>1, <2>3
      <4>2. \A r \in Requests \ {current} : fate'[r] = fate[r]
        BY <2>3
      <4>3. fate = [r \in Requests |-> fate[r]] /\ fate' = [r \in Requests |-> fate'[r]]
        OBVIOUS
      <4> HIDE DEF fate
      <4> QED BY ONLY <2>1, <4>1, <4>2, <4>3
    <3>3. running = TRUE /\ met' = met
      BY <1>1, <1>3 DEF NetSettle
    <3>4. current \in Protocol!Requests
      BY <2>1 DEF Protocol!Requests
    <3> QED BY ONLY <3>1, <3>2, <3>3, <3>4 DEF Protocol!Settle
  <2> QED BY <2>4 DEF Protocol!Next
<1>4. CASE Next /\ NetMeets
  <2>1. /\ \A r \in Requests : response[r].state # "open"
        /\ met + 1 \in Requests /\ pc' \notin Ended /\ met < N /\ met' = met + 1
    BY <1>4 DEF NetMeets, ResponseInv, LibType
  <2>2. PICK s \in {"open", "dropped"} :
             response' = [response EXCEPT ![met + 1] = Settled(@, s)]
    BY <1>4 DEF NetMeets
  <2>3. /\ response'[met + 1].state = s
        /\ \A r \in Requests \ {met + 1} : response'[r] = response[r]
    BY <2>1, <2>2, SettledType DEF LibType
  <2>4. Protocol!Free
    BY <2>1 DEF Protocol!Free, Protocol!Requests
  <2>5. fate' = [fate EXCEPT ![met + 1] = IF s = "open" THEN "held" ELSE "lost"]
    <3>1. fate'[met + 1] = IF s = "open" THEN "held" ELSE "lost"
      BY <2>1, <2>3
    <3>2. \A r \in Requests \ {met + 1} : fate'[r] = fate[r]
      BY <2>3
    <3>3. fate = [r \in Requests |-> fate[r]] /\ fate' = [r \in Requests |-> fate'[r]]
      OBVIOUS
    <3> HIDE DEF fate
    <3> QED BY ONLY <2>1, <3>1, <3>2, <3>3
  <2>6. running = TRUE /\ running' = TRUE
    BY <1>1, <1>4, <2>1
  <2>7. Protocol!Take \/ Protocol!Reject
    <3>1. CASE s = "open"
      BY <2>1, <2>4, <2>5, <2>6, <3>1 DEF Protocol!Take
    <3>2. CASE s = "dropped"
      BY <2>1, <2>4, <2>5, <2>6, <3>2 DEF Protocol!Reject
    <3> QED BY <3>1, <3>2
  <2> QED BY <2>7 DEF Protocol!Next
<1> QED BY <1>0, <1>2, <1>3, <1>4, NetStep

\* A worker takes requests one after the other, answers each at most once and
\* only while it holds it, and takes none after it has stopped.
THEOREM Implements == Spec => ImplementsProtocol
<1>1. Init => Protocol!Init
  BY DEF Init, Protocol!Init, Protocol!Requests, Ended
<1>2. IInv /\ IInv' /\ [Next]_vars => [Protocol!Next]_(Protocol!vars)
  BY ProtocolStep
<1> QED BY <1>1, <1>2, Invariance, PTL DEF Spec, ImplementsProtocol, Protocol!Spec
=============================================================================
