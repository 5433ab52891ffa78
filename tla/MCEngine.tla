------------------------------ MODULE MCEngine ------------------------------
(* Engine on a small instance: the three engines, three deployments' rules,  *)
(* one connection at a time, and the ways a run may break off.               *)
EXTENDS Engine

api == <<"api", "example">>
pin == <<"pin", "example", "">>  \* written with the dot of the root
Rule(host, port, path) == [scheme |-> FALSE, host |-> host, port |-> port, path |-> path]
v1 == <<"/", "v1", "/", "*">>
admin == <<"/", "admin">>

Deployment(allow, deny, inspect) ==
    [allow |-> allow, deny |-> deny, inspect |-> inspect, passthrough |-> {pin}]
MCConfigs ==
    {Deployment({Rule(api, "", v1), Rule(pin, "", v1)}, {}, TRUE),
     Deployment({}, {Rule(<<"*", "example">>, "", admin)}, TRUE),
     Deployment({Rule(<<"*", "example">>, "", <<>>)}, {Rule(pin, "443", <<>>), Rule(api, "80", <<>>)}, FALSE)}

Call(method, host, port, path, internal) ==
    [method |-> method, host |-> host, port |-> port, path |-> path, internal |-> internal]
MCCalls == {Call("GET", api, "80", <<"v1", "..", "admin">>, FALSE),
            Call("GET", api, "80", <<"v1", "x">>, TRUE),
            Call("CONNECT", api, "443", <<>>, FALSE),
            Call("GET", api, "", <<"v1", "x">>, FALSE),
            Call("CONNECT", pin, "443", <<>>, FALSE),
            Call("CONNECT", pin, "0443", <<>>, FALSE),
            Call("CONNECT", api, "", <<>>, FALSE)}
MCRequests == {[host |-> api, path |-> <<"v1", "x">>], [host |-> api, path |-> <<"admin">>],
               [host |-> pin, path |-> <<"v1", "x">>]}
MCNumber == "80" :> 80 @@ "443" :> 443 @@ "0443" :> 443

Job(engine, mode, continued, kept, proxied) ==
    [engine |-> engine, mode |-> mode, continued |-> continued, kept |-> kept,
     proxied |-> proxied]
MCJobs == {Job("opencode", "review", TRUE, FALSE, TRUE), Job("opencode", "answer", TRUE, TRUE, FALSE),
           Job("pi", "implement", FALSE, FALSE, TRUE), Job("adk", "triage", FALSE, FALSE, TRUE),
           Job("adk", "implement", FALSE, FALSE, FALSE)}
MCFailures == {[message |-> "generic", ref |-> TRUE,
                log |-> <<[ref |-> TRUE, error |-> ModelTurn], [ref |-> FALSE, error |-> "other"]>>],
               [message |-> "other", ref |-> FALSE, log |-> <<[ref |-> FALSE, error |-> ModelTurn]>>]}
=============================================================================
