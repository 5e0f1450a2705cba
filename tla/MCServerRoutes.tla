--------------------------- MODULE MCServerRoutes ---------------------------
(***************************************************************************)
(* The light-with-events device of tosca-esp32c3 (examples/light-with-    *)
(* events/src/main.rs): PUT /on, PUT /off with a u8 "test-value", GET     *)
(* /toggle; and, for the table's edge cases, a stateful GET /toggle whose *)
(* configuration equals the first once its prohibited hazard is removed,  *)
(* a GET /toggle/ with a "seconds" parameter that the first shadows, and  *)
(* the GET /info route of the light example.                              *)
(***************************************************************************)
EXTENDS ServerRoutes

CONSTANTS hOn, hOff, hToggle, hToggleState, hToggleSeconds, hInfo

MCWords == {"light", "on", "off", "toggle", "info", "7"}
MCNumerals == {"7"}
MCMainRoute == <<"/", "light">>
MCHandlers == {hOn, hOff, hToggle, hToggleState, hToggleSeconds, hInfo}

MCLightOnCalls ==
    {[path |-> <<"/", "on">>, method |-> "PUT", params |-> <<>>,
      hazards |-> {}, ftype |-> "SerialStateless", handler |-> hOn]}

MCLightOffCalls ==
    {[path |-> <<"/", "off">>, method |-> "PUT",
      params |-> <<[name |-> "test-value", kind |-> "u8"]>>,
      hazards |-> {}, ftype |-> "SerialStateless", handler |-> hOff]}

MCRouteCalls ==
    {[path |-> <<"/", "toggle">>, method |-> "GET", params |-> <<>>,
      hazards |-> {}, ftype |-> "OkStateless", handler |-> hToggle],
     [path |-> <<"/", "toggle">>, method |-> "GET", params |-> <<>>,
      hazards |-> {"LogEnergyConsumption"}, ftype |-> "OkStateful",
      handler |-> hToggleState],
     [path |-> <<"/", "toggle", "/">>, method |-> "GET",
      params |-> <<[name |-> "seconds", kind |-> "u8"]>>,
      hazards |-> {"FireHazard"}, ftype |-> "OkStateless",
      handler |-> hToggleSeconds],
     [path |-> <<"/", "info">>, method |-> "GET", params |-> <<>>,
      hazards |-> {}, ftype |-> "InfoStateless", handler |-> hInfo]}

(* Request targets: token sequences of at most five tokens, no two words *)
(* adjacent.  The server gets origin-form targets, which start with '/',   *)
(* as analyze_route assumes (server.rs:425).                               *)
Paths == {p \in BoundedSeq(MCWords \cup {"/"}, 5) :
             \A i \in 1..(Len(p) - 1) : p[i] = "/" \/ p[i + 1] = "/"}
MCSlashPaths == {p \in Paths : p # <<>> /\ p[1] = "/"}

Body(length, cl, ctype, read, valid, json) ==
    [length |-> length, cl |-> cl, ctype |-> ctype, read |-> read,
     valid |-> valid, json |-> json]

MCBodies ==
    {Body("missing", 0, "application/json", "ok", FALSE, <<>>),
     Body("nan", 0, "application/json", "ok", FALSE, <<>>),
     Body("number", 129, "application/json", "ok", TRUE, "test-value" :> "u8"),
     Body("number", 128, "text/plain", "ok", TRUE, "test-value" :> "u8"),
     Body("number", 128, "application/json", "error", FALSE, <<>>),
     Body("number", 0, "application/json", "ok", FALSE, <<>>),
     Body("number", 128, "application/json", "ok", TRUE, "test-value" :> "u8"),
     Body("number", 128, "application/json", "ok", TRUE, "test-value" :> "chars"),
     Body("number", 16, "application/json", "ok", TRUE, "seconds" :> "u8"),
     Body("number", 2, "application/json", "ok", TRUE, <<>>)}

=============================================================================
