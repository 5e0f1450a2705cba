---------------------------- MODULE ServerRoutes ----------------------------
(***************************************************************************)
(* The route table of a tosca-esp32c3 light and the HTTP handler that      *)
(* dispatches on it (src/devices/light.rs, src/device.rs, src/server.rs). *)
(*                                                                         *)
(* The builder keeps two parallel vectors: route_configs (an IndexSet of   *)
(* RouteConfig) and index_array, whose i-th FuncIndex names the function   *)
(* of the i-th route in one of six function vectors.  The server's        *)
(* analyze_route walks split_terminator('/') iterators over the request    *)
(* path and returns a route index; run_function follows index_array.      *)
(*                                                                         *)
(* A path is a sequence of tokens, each the separator "/" or a word, with  *)
(* no two words adjacent: a word stands for a maximal run of characters    *)
(* other than '/'.  calls is a history variable: the builder calls made,   *)
(* with the handler each one passed.                                       *)
(***************************************************************************)
EXTENDS Naturals, Sequences, SequencesExt

CONSTANTS
    Words,          \* path words
    Numerals,       \* the words that parse as integers (u8)
    MainRoute,      \* the device's main route, "/light"
    LightOnCalls,   \* the turn_light_on_* calls the example may make
    LightOffCalls,  \* the turn_light_off_* calls
    RouteCalls,     \* the *_route calls of CompleteLight
    Handlers,       \* the async functions passed to the builder
    RequestPaths,   \* request targets a client sends
    Bodies,         \* request bodies with their headers
    MaxRoutes       \* bound: builder calls

Slash == "/"

(* RestKind, mapped one to one onto edge_http Method by method_map; PATCH *)
(* stands for every other Method.                                          *)
Methods == {"GET", "PUT", "POST", "DELETE"}
AllMethods == Methods \cup {"PATCH"}

FuncTypes == {"OkStateless", "OkStateful", "SerialStateless",
              "SerialStateful", "InfoStateless", "InfoStateful"}

(* The body type of each function type's Result<_, ErrorResponse>: the    *)
(* OkFn ... InfoStateFn aliases.                                           *)
FuncBody ==
    [t \in FuncTypes |->
        IF t \in {"OkStateless", "OkStateful"} THEN "Ok"
        ELSE IF t \in {"SerialStateless", "SerialStateful"} THEN "Serial"
        ELSE "Info"]

(* Mutation: stateless_info_route passes ResponseKind::Serial, as the     *)
(* serial routes above it do.                                              *)
ResponseKindOfInfoAsSerial ==
    [t \in FuncTypes |->
        IF t \in {"OkStateless", "OkStateful"} THEN "Ok"
        ELSE IF t \in {"SerialStateless", "SerialStateful", "InfoStateless"}
        THEN "Serial"
        ELSE "Info"]

(* The ResponseKind each *_route method gives to route_func_manager.      *)
ResponseKindOf ==
    [t \in FuncTypes |->
        IF t \in {"OkStateless", "OkStateful"} THEN "Ok"
        ELSE IF t \in {"SerialStateless", "SerialStateful"} THEN "Serial"
        ELSE "Info"]

AllowedHazards == {"FireHazard", "ElectricEnergyConsumption"}

(* The catalogue the route hazards are taken from (tosca::hazards).       *)
Hz == INSTANCE Hazards

ASSUME AllowedHazards \subseteq Hz!Hazard

MaxRequestSize == 128     \* MAXIMUM_REQUEST_SIZE

NoHandler == "none"
NoBody == [none |-> TRUE]
None == [none |-> TRUE]

VARIABLES
    routeConfigs,   \* device_data.route_configs, in insertion order
    indexArray,     \* index_array: [ftype, index], index 0-based
    functions,      \* routes_functions: one vector of handlers per FuncType
    calls,          \* history: the builder calls made
    phase,          \* "build" until build(), "serve", then "served"
    served          \* the last request handled and its response, or None

vars == <<routeConfigs, indexArray, functions, calls, phase, served>>

-----------------------------------------------------------------------------
(* Paths                                                                   *)

(* str::split('/'): the pieces between separators, "" for an empty one.  *)
RECURSIVE SplitAll(_)
SplitAll(p) ==
    IF p = <<>> THEN <<"">>
    ELSE IF p[1] = Slash THEN <<"">> \o SplitAll(Tail(p))
    ELSE <<p[1]>> \o Tail(SplitAll(Tail(p)))

(* str::split_terminator('/'): split, without one trailing empty piece.   *)
SplitTerminator(p) ==
    LET s == SplitAll(p) IN IF Last(s) = "" THEN Front(s) ELSE s

(* str::strip_suffix('/').unwrap_or(path)                                   *)
StripSuffix(p) ==
    IF p # <<>> /\ Last(p) = Slash THEN Front(p) ELSE p

(* A segment as a path, to compare it with a path or a sub-slice.          *)
SegPath(s) == IF s = "" THEN <<>> ELSE <<s>>

-----------------------------------------------------------------------------
(* The builder (light.rs)                                                  *)

(* route_func_manager: remove_prohibited_hazards, serialize_data and       *)
(* change_response_kind give the RouteConfig that is stored.              *)
Config(c) ==
    [path |-> c.path, method |-> c.method, params |-> c.params,
     hazards |-> c.hazards \cap AllowedHazards,
     kind |-> ResponseKindOf[c.ftype]]

(* Mutation: no `contains` check; the config is added to the IndexSet    *)
(* (a no-op for a duplicate) and the function is always pushed.          *)
RouteFuncManagerNoDuplicateCheck(c) ==
    /\ routeConfigs' =
          IF \E i \in DOMAIN routeConfigs : routeConfigs[i] = Config(c)
          THEN routeConfigs ELSE Append(routeConfigs, Config(c))
    /\ functions' = [functions EXCEPT ![c.ftype] = Append(@, c.handler)]
    /\ indexArray' = Append(indexArray, [ftype |-> c.ftype,
                                         index |-> Len(functions[c.ftype])])

(* route_func_manager with the closure of the *_route method: a config    *)
(* already present is logged and the builder returned unchanged;           *)
(* otherwise the config is added, the function pushed on the vector of    *)
(* its FuncType and FuncIndex(ftype, len - 1) pushed on index_array.      *)
RouteFuncManager(c) ==
    IF \E i \in DOMAIN routeConfigs : routeConfigs[i] = Config(c)
    THEN UNCHANGED <<routeConfigs, functions, indexArray>>
    ELSE /\ routeConfigs' = Append(routeConfigs, Config(c))
         /\ functions' = [functions EXCEPT ![c.ftype] = Append(@, c.handler)]
         /\ indexArray' = Append(indexArray, [ftype |-> c.ftype,
                                              index |-> Len(functions[c.ftype])])

(* The typestate of the builder: Light takes a light-on route, then       *)
(* LightOnRoute a light-off route, then CompleteLight any route.           *)
Stage(n) ==
    IF n = 0 THEN LightOnCalls ELSE IF n = 1 THEN LightOffCalls ELSE RouteCalls

AddRoute ==
    /\ phase = "build"
    /\ Len(calls) < MaxRoutes
    /\ \E c \in Stage(Len(calls)) :
          /\ RouteFuncManager(c)
          /\ calls' = Append(calls, c)
    /\ UNCHANGED <<phase, served>>

(* CompleteLight::build, Device::into_internal and Server::new: the       *)
(* vectors move unchanged into the handler.                                *)
Build ==
    /\ phase = "build"
    /\ Len(calls) >= 2
    /\ phase' = "serve"
    /\ UNCHANGED <<routeConfigs, indexArray, functions, calls, served>>

-----------------------------------------------------------------------------
(* The handler (server.rs)                                                 *)

(* A response written to the connection, or, with kind "route", the       *)
(* RouteInfo that analyze_route hands to run_function.                     *)
Resp(kind) == [kind |-> kind, index |-> 0, handler |-> NoHandler,
               params |-> <<>>, body |-> "none"]
Found(i, params) == [kind |-> "route", index |-> i, handler |-> NoHandler,
                     params |-> params, body |-> "none"]

ParamNames(rc) == {rc.params[k].name : k \in DOMAIN rc.params}
ParamKind(rc, n) == rc.params[CHOOSE k \in DOMAIN rc.params : rc.params[k].name = n].kind

(* parse_parameter_value and into_value: a chars sequence takes any       *)
(* segment, an integer kind only a numeral.                                *)
Parses(seg, kind) == kind = "chars" \/ seg \in Numerals

(* The segments of a route's own path, route.data.path[1..].              *)
RouteSegs(rc) == SplitTerminator(Tail(rc.path))

(* One iteration of the loop of analyze_route: method_map, then every     *)
(* route segment equal to the next path segment after "" and the main     *)
(* route.                                                                  *)
RouteMatches(rc, method, segs) ==
    /\ rc.method = method
    /\ IsPrefix(RouteSegs(rc), SubSeq(segs, 3, Len(segs)))

(* The loop: the 1-based index of the first matching route, or            *)
(* Len(routeConfigs) + 1 (route_index = len) when none matches.           *)
RECURSIVE ScanRoutes(_, _, _)
ScanRoutes(method, segs, i) ==
    IF i > Len(routeConfigs) \/ RouteMatches(routeConfigs[i], method, segs)
    THEN i ELSE ScanRoutes(method, segs, i + 1)

(* parse_get_parameters: the next segments of route_iter, one per         *)
(* parameter in order; the first one missing is invalid data, the first   *)
(* one that does not parse an internal error.                             *)
ParseGetParameters(rc, segs, consumed, i) ==
    LET n == Len(rc.params)
        bad == {k \in 1..n : consumed + k > Len(segs)
                             \/ ~Parses(segs[consumed + k], rc.params[k].kind)}
    IN  IF bad = {}
        THEN Found(i, [nm \in ParamNames(rc) |->
                 segs[consumed + CHOOSE k \in 1..n : rc.params[k].name = nm]])
        ELSE IF consumed + Min(bad) > Len(segs) THEN Resp("invalid_data")
        ELSE Resp("internal")

(* Mutation: the Content-Length bound is not checked before the body is   *)
(* sliced.                                                                 *)
ParseHeadersParametersNoSizeCheck(rc, body, i) ==
    IF body.length = "missing" THEN Resp("invalid_data")
    ELSE IF body.length = "nan" THEN Resp("internal")
    ELSE IF body.ctype # "application/json" THEN Resp("invalid_data")
    ELSE IF body.read = "error" THEN Resp("internal")
    ELSE IF body.cl > MaxRequestSize THEN Resp("panic")
    ELSE IF ~body.valid THEN Resp("internal")
    ELSE IF \E nm \in DOMAIN body.json :
               nm \notin ParamNames(rc) \/ body.json[nm] # ParamKind(rc, nm)
         THEN Resp("invalid_data")
    ELSE Found(i, body.json)

(* parse_headers_parameters, in the order of its early returns; a missing *)
(* Content-Type and a wrong one give the same response.  The single read  *)
(* fills the 128-byte buffer; bytes[0..content_length] panics past it.    *)
(* Every JSON parameter must be declared with its kind; a declared one    *)
(* that is absent is not detected.  body.json is what serde_json makes of *)
(* bytes[0..content_length] when valid: a map of parameter names to the   *)
(* kinds of their values.  body.length is the Content-Length header:       *)
(* "missing", "nan" (not a number) or "number", with value body.cl.       *)
ParseHeadersParameters(rc, body, i) ==
    IF body.length = "missing" THEN Resp("invalid_data")
    ELSE IF body.length = "nan" THEN Resp("internal")
    ELSE IF body.cl > MaxRequestSize THEN Resp("internal")
    ELSE IF body.ctype # "application/json" THEN Resp("invalid_data")
    ELSE IF body.read = "error" THEN Resp("internal")
    ELSE IF body.cl > MaxRequestSize THEN Resp("panic")
    ELSE IF ~body.valid THEN Resp("internal")
    ELSE IF \E nm \in DOMAIN body.json :
               nm \notin ParamNames(rc) \/ body.json[nm] # ParamKind(rc, nm)
         THEN Resp("invalid_data")
    ELSE Found(i, body.json)

(* analyze_route: strip one trailing '/', take the first segment (which   *)
(* must not be the whole path) and the main route, find the first route   *)
(* matching the rest, consume its segments, then read its parameters from *)
(* the path (GET) or from the body (any other method).                    *)
AnalyzeRoute(req) ==
    LET path == StripSuffix(req.path)
        segs == SplitTerminator(path)
        i    == ScanRoutes(req.method, segs, 1)
        rc   == routeConfigs[i]
    IN  IF segs = <<>> \/ SegPath(segs[1]) = path THEN Resp("not_found")
        ELSE IF Len(segs) < 2 \/ SegPath(segs[2]) # Tail(MainRoute)
             THEN Resp("not_found")
        ELSE IF i > Len(routeConfigs) THEN Resp("not_found")
        ELSE IF rc.params = <<>> THEN Found(i, <<>>)
        ELSE IF req.method = "GET"
             THEN ParseGetParameters(rc, segs, 2 + Len(RouteSegs(rc)), i)
        ELSE ParseHeadersParameters(rc, req.body, i)

(* run_function: index_array[index], then the function vector of its     *)
(* FuncType at its index; an index out of range panics.                    *)
RunFunction(i, params) ==
    IF i > Len(indexArray) THEN Resp("panic")
    ELSE LET fi == indexArray[i] IN
         IF fi.index + 1 > Len(functions[fi.ftype]) THEN Resp("panic")
         ELSE [kind |-> "ran", index |-> i,
               handler |-> functions[fi.ftype][fi.index + 1], params |-> params,
               body |-> FuncBody[fi.ftype]]

(* is_method_allowed is TRUE for the methods the server refuses.          *)
IsMethodAllowed(m) == m \notin Methods

(* Handler::handle for one connection: "/" answers with the device        *)
(* description, a refused method with 405, then analyze_route and         *)
(* run_function.                                                           *)
Handle(req) ==
    IF req.path = <<Slash>> THEN Resp("main")
    ELSE IF IsMethodAllowed(req.method) THEN Resp("not_allowed")
    ELSE LET a == AnalyzeRoute(req) IN
         IF a.kind = "route" THEN RunFunction(a.index, a.params) ELSE a

-----------------------------------------------------------------------------
(* The response written (response.rs)                                      *)

(* Headers::not_found, not_allowed, json, json_error, serialization_error:*)
(* the status and the Content-Type header, "none" for none.               *)
NotFoundHeaders == [status |-> 404, ctype |-> "none"]
NotAllowedHeaders == [status |-> 405, ctype |-> "none"]
JsonHeaders == [status |-> 200, ctype |-> "application/json"]
JsonErrorHeaders == [status |-> 500, ctype |-> "application/json"]
SerializationErrorHeaders == [status |-> 500, ctype |-> "text/plain"]

(* Response::new, as write_from_ref puts it on the connection; the body   *)
(* is the kind of value serialized into it.                                *)
Http(h, body) == [status |-> h.status, ctype |-> h.ctype, body |-> body]

(* json_to_response: serde_json::to_vec of the value with the headers, or *)
(* the error text with the serialization_error headers when it fails.     *)
JsonToResponse(h, body, serializes) ==
    IF serializes THEN Http(h, body)
    ELSE Http(SerializationErrorHeaders, "SerializationError")

(* ErrorResponse::error and error_with_info, which invalid_data, internal *)
(* and the server's error_response helpers all go through.               *)
ErrorResp == JsonToResponse(JsonErrorHeaders, "Error", TRUE)

(* What the handler's future resolves to: Ok, Err(ErrorResponse), or, for *)
(* a SerialResponse::new of a value serde_json cannot write, the          *)
(* serialization error.  Nothing else reaches run_function's caller.       *)
Outcomes(resp) ==
    IF resp.kind # "ran" THEN {"ok"}
    ELSE IF resp.body = "Serial" THEN {"ok", "err", "unserializable"}
    ELSE {"ok", "err"}

(* Response::write of what Handle produced: the main route's description  *)
(* (Response::json in Device::into_internal), Response::not_allowed and   *)
(* not_found, the ErrorResponse of analyze_route, or the From<Result<..>> *)
(* of the handler's result.  A panic writes nothing.                       *)
Written(resp, outcome) ==
    CASE resp.kind = "main"        -> JsonToResponse(JsonHeaders, "Description", TRUE)
      [] resp.kind = "not_allowed" -> Http(NotAllowedHeaders, "NotAllowedText")
      [] resp.kind = "not_found"   -> Http(NotFoundHeaders, "Empty")
      [] resp.kind \in {"invalid_data", "internal"} -> ErrorResp
      [] resp.kind = "ran" ->
            IF outcome = "err" THEN ErrorResp
            ELSE JsonToResponse(JsonHeaders, resp.body, outcome = "ok")
      [] OTHER -> Http([status |-> 0, ctype |-> "none"], "none")

Requests ==
    [method : {"GET"}, path : RequestPaths, body : {NoBody}]
    \cup [method : AllMethods \ {"GET"}, path : RequestPaths, body : Bodies]

(* A connection is served.  The handler only reads the device, so the     *)
(* NUMBER_OF_CLIENTS connections served at once do not interfere, and a   *)
(* behaviour serving one request per built device covers every sequence  *)
(* of requests: the model stops after it ("served").                       *)
Serve ==
    /\ phase = "serve"
    /\ \E req \in Requests :
          LET resp == Handle(req) IN
          \E outcome \in Outcomes(resp) :
             served' = [req |-> req, resp |-> resp, outcome |-> outcome,
                        http |-> Written(resp, outcome)]
    /\ phase' = "served"
    /\ UNCHANGED <<routeConfigs, indexArray, functions, calls>>

-----------------------------------------------------------------------------

(* CompleteLight::with_state: no route, empty vectors.                    *)
Init ==
    /\ routeConfigs = <<>>
    /\ indexArray = <<>>
    /\ functions = [t \in FuncTypes |-> <<>>]
    /\ calls = <<>>
    /\ phase = "build"
    /\ served = None

Next == AddRoute \/ Build \/ Serve

Spec == Init /\ [][Next]_vars

-----------------------------------------------------------------------------
(* Reference dispatch, from the builder calls                              *)

(* The calls whose configuration no earlier call had.                     *)
Registered == {k \in DOMAIN calls :
                  \A j \in 1..(k - 1) : Config(calls[j]) # Config(calls[k])}

(* The route's URL is the main route followed by its path, a trailing '/' *)
(* of either ignored; the request names it when its path, less one        *)
(* trailing '/', starts with that URL and continues, if at all, with '/'. *)
URL(c) == MainRoute \o StripSuffix(c.path)

Names(c, req) ==
    LET sp == StripSuffix(req.path) IN
    /\ c.method = req.method
    /\ IsPrefix(URL(c), sp)
    /\ Len(sp) = Len(URL(c)) \/ sp[Len(URL(c)) + 1] = Slash

(* The first registered route the request names, 0 if none.               *)
RefRoute(req) ==
    LET K == {k \in Registered : Names(calls[k], req)}
    IN  IF K = {} THEN 0 ELSE Min(K)

(* The text after the URL, split at '/': "" and then the values.         *)
RefValues(req, k) ==
    LET sp == StripSuffix(req.path)
    IN  SplitTerminator(SubSeq(sp, Len(URL(calls[k])) + 1, Len(sp)))

-----------------------------------------------------------------------------
(* Properties                                                              *)

(* Every response is one the handler writes; no index of run_function and *)
(* no slice of the body buffer panics.                                     *)
TypeOK ==
    /\ routeConfigs \in Seq({Config(c) : c \in LightOnCalls \cup LightOffCalls
                                                \cup RouteCalls})
    /\ indexArray \in Seq([ftype : FuncTypes, index : Nat])
    /\ functions \in [FuncTypes -> Seq(Handlers)]
    /\ phase \in {"build", "serve", "served"}
    /\ served = None
       \/ /\ served.req \in Requests
          /\ served.resp.kind \in {"main", "not_allowed", "not_found",
                                   "invalid_data", "internal", "ran"}
          /\ served.http.status \in {200, 404, 405, 500}

(* The handler run_function calls is the one passed with the first        *)
(* registered route whose URL the request path names, with the path       *)
(* segments after that URL as its GET parameters; and a request naming a  *)
(* route without parameters runs it.  This is what index_array kept       *)
(* parallel to route_configs, and the iterator walk of analyze_route,     *)
(* must give.                                                              *)
DispatchAgrees ==
    served # None =>
      LET r == served.req
          k == RefRoute(r)
      IN  /\ served.resp.kind = "ran" =>
               /\ k # 0
               /\ served.resp.handler = calls[k].handler
               /\ r.method = "GET" =>
                    \A j \in DOMAIN calls[k].params :
                       served.resp.params[calls[k].params[j].name]
                          = RefValues(r, k)[j + 1]
          /\ (k # 0 /\ calls[k].params = <<>> /\ r.path # <<Slash>>)
               => served.resp.kind = "ran"

(* A 200 answer is written exactly for the main route and for a handler  *)
(* that returned Ok with a body serde_json could write, and its body is   *)
(* the response kind the route's RouteConfig advertises in the device    *)
(* description, the kind the controller parses it as.  The kind comes    *)
(* twice from the code: the ResponseKind each *_route method passes to    *)
(* change_response_kind, and the function type index_array selects in     *)
(* run_function; only their agreement keeps the controller's parser right.*)
AnswerAsAdvertised ==
    served # None =>
      /\ (served.http.status = 200) =
            \/ served.resp.kind = "main"
            \/ served.resp.kind = "ran" /\ served.outcome = "ok"
      /\ (served.http.status = 200 /\ served.resp.kind = "ran")
            => served.http.body = routeConfigs[served.resp.index].kind

(* Every hazard a registered route carries is described by the device as *)
(* its HazardData (id and category) and read back by the controller with  *)
(* from_id: the id names that same hazard and the category lists it.  It *)
(* holds only while the tables of hazards.rs (ALL_HAZARDS, id, from_id,    *)
(* category, Category::hazards) agree with each other, which is checked   *)
(* with it.                                                                *)
HazardCatalogueConsistent ==
    /\ Hz!CatalogueConsistent
    /\ \A i \in DOMAIN routeConfigs : \A h \in routeConfigs[i].hazards :
          /\ Hz!from_id(Hz!data(h).id) = h
          /\ h \in ToSet(Hz!hazards(Hz!data(h).category_name))

=============================================================================
