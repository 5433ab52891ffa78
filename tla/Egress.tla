------------------------------- MODULE Egress -------------------------------
(* The proxy the agent's processes reach the network through                 *)
(* (internal/egress): the rules, and one job's session with its connections. *)
(* A host is a sequence of labels, a path one of segments; letter case is    *)
(* left out. Forwarded requests belong to the HTTP server and die with its   *)
(* context; what the server gave away (a CONNECT) the session tracks itself. *)
EXTENDS Integers, Sequences, FiniteSets, SequencesExt, Wildcard

CONSTANTS Configs,   \* settings a deployment may have
          Calls,     \* what a client asks of the proxy: [method, host, port, path]
          Requests,  \* what it asks inside an inspected connection: [host, path]
          Number,    \* the number a spelling of a port stands for: "0443" for 443
          Conns      \* client connections

VARIABLES config,    \* the deployment's settings
          session,   \* "none", "open", "cancelled", "shut", "closed"
          conn,      \* [at, call, client, upstream] of each connection
          tracked,   \* ends the session would cut: <<connection, "client" or "upstream">>
          reached    \* what was reached: [host, port, number, paths], the port as it was
                     \* asked for and as it was dialled, the paths that may have been

egressVars == <<config, session, conn, tracked, reached>>

-----------------------------------------------------------------------------
(* Rules. A host may be written with the dot of the root, an empty last label. *)
(* A port is matched as it is written, "" for one that was left empty.         *)
NormalizeHost(host) == IF host # <<>> /\ Last(host) = "" THEN Front(host) ELSE host
HasPath(rule) == rule.path # <<>>

\* A leading wildcard label is cut before a wildcard is looked for; "*" alone
\* has no dot after it to be cut with.
TrimWildcard(host) == IF Len(host) > 1 /\ Head(host) = "*" THEN Tail(host) ELSE host
ParseRule(rule) ==
    /\ ~rule.scheme
    /\ NormalizeHost(rule.host) # <<>>
    /\ "*" \notin Range(TrimWildcard(NormalizeHost(rule.host)))
    /\ rule.port \in DOMAIN Number \cup {""}

\* Whether the worker starts with these settings.
New(c) ==
    /\ \A rule \in c.allow \cup c.deny : ParseRule(rule)
    /\ c.inspect \/ \A rule \in c.allow \cup c.deny : ~HasPath(rule)

Restricted(c) == c.allow # {}

MatchHost(pattern, host) ==
    \/ pattern = <<"*">>
    \/ /\ Len(pattern) > 1 /\ Head(pattern) = "*"
       /\ Len(host) >= Len(pattern) /\ IsSuffix(Tail(pattern), host)
    \/ pattern = host
MatchesHost(rule, host, port) ==
    /\ rule.port \in {"", port}
    /\ MatchHost(NormalizeHost(rule.host), host)

\* A path as the symbols a pattern is matched with, its dots resolved.
Clean(path) ==
    LET walk(done, part) == CASE part \in {"", "."} -> done
                              [] part = ".." -> IF done = <<>> THEN <<>> ELSE Front(done)
                              [] OTHER -> Append(done, part)
        parts == FoldLeft(walk, <<>>, path)
    IN  IF parts = <<>> THEN <<"/">> ELSE FlattenSeq([i \in DOMAIN parts |-> <<"/", parts[i]>>])

\* Every path an agent may ask for.
Paths == {Clean(request.path) : request \in Requests} \cup {Clean(call.path) : call \in Calls}

RuleMatches(rule, host, port, path) ==
    MatchesHost(rule, host, port) /\ (HasPath(rule) => Match(rule.path, path))

\* One request, its path known.
Decide(c, host, port, path) ==
    /\ \A rule \in c.deny : ~RuleMatches(rule, host, port, path)
    /\ Restricted(c) => \E rule \in c.allow : RuleMatches(rule, host, port, path)

\* A connection whose requests will be decided one by one.
DecideConnect(c, host, port) ==
    /\ \A rule \in c.deny : ~(~HasPath(rule) /\ MatchesHost(rule, host, port))
    /\ Restricted(c) => \E rule \in c.allow : MatchesHost(rule, host, port)

\* Mutant of DecideTunnel: a rule for one path lets the tunnel through.
TunnelByAnyRule(c, host, port) ==
    /\ \A rule \in c.deny : ~MatchesHost(rule, host, port)
    /\ Restricted(c) => \E rule \in c.allow : MatchesHost(rule, host, port)

\* A connection nobody looks into.
DecideTunnel(c, host, port) ==
    /\ \A rule \in c.deny : ~MatchesHost(rule, host, port)
    /\ Restricted(c) => \E rule \in c.allow : ~HasPath(rule) /\ MatchesHost(rule, host, port)

Inspects(c, host) ==
    c.inspect /\ ~\E pattern \in c.passthrough : MatchHost(NormalizeHost(pattern), host)

-----------------------------------------------------------------------------
Idle == [at |-> "none", call |-> "none", client |-> FALSE, upstream |-> FALSE]

EgressInit ==
    /\ config \in Configs
    /\ session = "none"
    /\ conn = [c \in Conns |-> Idle]
    /\ tracked = {}
    /\ reached = {}

Host(c) == NormalizeHost(conn[c].call.host)

\* The dialler reads a port as a number; the HTTP transport puts its scheme's
\* port in for an empty one.
Dialled(port, default) == IF port = "" THEN default ELSE Number[port]
Reach(c, default, paths) ==
    reached' = reached \cup {[host |-> Host(c), port |-> conn[c].call.port,
                              number |-> Dialled(conn[c].call.port, default), paths |-> paths]}

Over(c) == [conn[c] EXCEPT !.at = "over", !.client = FALSE, !.upstream = FALSE]
Untracked(c) == tracked \ {<<c, "client">>, <<c, "upstream">>}

\* Start: the session's own listener.
Open == session = "none" /\ session' = "open" /\ UNCHANGED <<config, conn, tracked, reached>>

\* A client connects while the server listens, which it does until it is shut.
Accept(c, call) ==
    /\ session \in {"open", "cancelled"} /\ conn[c].at = "none"
    /\ conn' = [conn EXCEPT ![c] = [at |-> "asked", call |-> call, client |-> TRUE, upstream |-> FALSE]]
    /\ UNCHANGED <<config, session, tracked, reached>>

\* A plain request: refused, or reached under the session's context. Without
\* an allow list nothing internal is dialled.
Dials(call) == Restricted(config) \/ ~call.internal
Forward(c) ==
    LET call == conn[c].call
        path == Clean(call.path)
    IN  /\ conn[c].at = "asked" /\ call.method = "GET"
        /\ \/ /\ session = "open" /\ Dials(call)
              /\ Decide(config, Host(c), call.port, path)
              /\ Reach(c, 80, {path})
           \/ reached' = reached  \* denied, or upstream failed
        /\ conn' = [conn EXCEPT ![c] = Over(c)]
        /\ UNCHANGED <<config, session, tracked>>

\* CONNECT, up to the point where the server gives the connection away.
Connect(c) ==
    LET call == conn[c].call
        allowed == IF Inspects(config, Host(c)) THEN DecideConnect(config, Host(c), call.port)
                   ELSE DecideTunnel(config, Host(c), call.port)
    IN  /\ conn[c].at = "asked" /\ call.method = "CONNECT"
        /\ conn' = [conn EXCEPT ![c] = IF allowed THEN [@ EXCEPT !.at = "hijacked"] ELSE Over(c)]
        /\ UNCHANGED <<config, session, tracked, reached>>

\* Mutant of Track: whether the session is closed is not looked at.
TrackAnyway(c, end) ==
    /\ conn' = [conn EXCEPT ![c].at = IF end = "client" /\ ~Inspects(config, Host(c))
                                      THEN "dialling" ELSE "answering"]
    /\ tracked' = tracked \cup {<<c, end>>}

\* track: an end is recorded so that Close can cut it, or closed at once.
Track(c, end) ==
    IF session = "closed"
    THEN /\ conn' = [conn EXCEPT ![c] = Over(c)]
         /\ tracked' = Untracked(c)
    ELSE /\ conn' = [conn EXCEPT ![c].at = IF end = "client" /\ ~Inspects(config, Host(c))
                                           THEN "dialling" ELSE "answering"]
         /\ tracked' = tracked \cup {<<c, end>>}
HoldClient(c) ==
    conn[c].at = "hijacked" /\ Track(c, "client") /\ UNCHANGED <<config, session, reached>>

\* The dial ends with the session's context; one that succeeded before does not.
\* An empty port is port 0 to the dialler, where nobody answers.
Dial(c) ==
    LET call == conn[c].call
    IN  /\ conn[c].at = "dialling"
        /\ \/ /\ session = "open" /\ Dials(call) /\ call.port # ""
              /\ conn' = [conn EXCEPT ![c] = [@ EXCEPT !.at = "dialled", !.upstream = TRUE]]
              /\ Reach(c, 0, Paths)
              /\ UNCHANGED tracked
           \/ /\ conn' = [conn EXCEPT ![c] = Over(c)]
              /\ tracked' = Untracked(c)
              /\ UNCHANGED reached
        /\ UNCHANGED <<config, session>>
HoldUpstream(c) ==
    conn[c].at = "dialled" /\ Track(c, "upstream") /\ UNCHANGED <<config, session, reached>>

\* The client is told that it is through, and with inspection shakes hands.
Establish(c) ==
    /\ conn[c].at = "answering"
    /\ \/ /\ conn[c].client
          /\ conn' = [conn EXCEPT ![c].at = IF Inspects(config, Host(c)) THEN "serving" ELSE "relaying"]
          /\ UNCHANGED tracked
       \/ conn' = [conn EXCEPT ![c] = Over(c)] /\ tracked' = Untracked(c)
    /\ UNCHANGED <<config, session, reached>>

\* A request inside an inspected connection. It goes where the CONNECT went,
\* whatever its Host header says.
Serve(c, request) ==
    LET path == Clean(request.path)
    IN  /\ conn[c].at = "serving" /\ conn[c].client /\ session = "open"
        /\ NormalizeHost(request.host) = Host(c)
        /\ Dials(conn[c].call)
        /\ Decide(config, Host(c), conn[c].call.port, path)
        /\ Reach(c, 443, {path})
        /\ UNCHANGED <<config, session, conn, tracked>>

\* Either side hangs up, or was cut.
HangUp(c) ==
    /\ conn[c].at \in {"relaying", "serving"}
    /\ conn' = [conn EXCEPT ![c] = Over(c)]
    /\ tracked' = Untracked(c)
    /\ UNCHANGED <<config, session, reached>>

\* Close, in its three steps.
Cancel == session = "open" /\ session' = "cancelled" /\ UNCHANGED <<config, conn, tracked, reached>>
Shut ==
    /\ session = "cancelled" /\ session' = "shut"
    /\ conn' = [c \in Conns |-> IF conn[c].at = "asked" THEN [conn[c] EXCEPT !.client = FALSE]
                                ELSE conn[c]]
    /\ UNCHANGED <<config, tracked, reached>>
CutOff ==
    /\ session = "shut" /\ session' = "closed"
    /\ conn' = [c \in Conns |-> [conn[c] EXCEPT !.client = @ /\ <<c, "client">> \notin tracked,
                                                !.upstream = @ /\ <<c, "upstream">> \notin tracked]]
    /\ tracked' = {}
    /\ UNCHANGED <<config, reached>>

Traffic(c) ==
    \/ Forward(c) \/ Connect(c) \/ HoldClient(c) \/ Dial(c)
    \/ HoldUpstream(c) \/ Establish(c) \/ HangUp(c)

-----------------------------------------------------------------------------
(* What a rule says of a destination: its host, its port if it names one,    *)
(* and its paths.                                                            *)
Covers(rule, destination, path) ==
    /\ rule.port # "" => Number[rule.port] = destination.number
    /\ MatchHost(NormalizeHost(rule.host), destination.host)
    /\ HasPath(rule) => Match(rule.path, path)

(* Every destination the agent reached is one the allow list covers, and a   *)
(* tunnel, whose requests nobody saw, only a host whose every path is; a     *)
(* deny rule covers it only if the rule and the client wrote the same port   *)
(* in two ways.  (rules.go Decide, DecideConnect, DecideTunnel)              *)
ReachedWasAllowed ==
    \A r \in reached : \A path \in r.paths :
        /\ Restricted(config) => \E rule \in config.allow : Covers(rule, r, path)
        /\ \A rule \in config.deny : Covers(rule, r, path) => rule.port \notin {"", r.port}
=============================================================================
