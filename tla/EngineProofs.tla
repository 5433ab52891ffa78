---------------------------- MODULE EngineProofs ----------------------------
(* The agent and its proxy, whatever the rules, the connections and their    *)
(* requests, and the moment at which the session is closed: what is reached  *)
(* is what the operator's rules allow, nothing of a run outlives it, and its  *)
(* result names the tokens that its runs told of.                            *)
EXTENDS Engine, FiniteSetTheorems, TLAPS

-----------------------------------------------------------------------------
(* A tunnel is decided when it is asked for and dialled later, so the        *)
(* invariant remembers the decision from the CONNECT to the dial; the two    *)
(* theorems say how the three decisions of rules.go are ordered.             *)
Stages == {"none", "asked", "hijacked", "dialling", "dialled", "answering", "relaying", "serving", "over"}
Connection == [at : Stages, call : Calls \cup {"none"}, client : BOOLEAN, upstream : BOOLEAN]
Connections == [Conns -> Connection]

EgressInv ==
    /\ conn \in Connections
    /\ \A c \in Conns :
          \/ conn[c].at = "hijacked" /\ ~Inspects(config, Host(c))
          \/ conn[c].at = "dialling"
          => DecideTunnel(config, Host(c), conn[c].call.port)
    /\ ReachedWasAllowed

-----------------------------------------------------------------------------
(* A tunnel is let through only to a host and port whose every request would *)
(* be: DecideTunnel is never laxer than Decide (rules.go:225-244).           *)
THEOREM TunnelIsStrictest ==
    ASSUME NEW c, NEW host, NEW port, NEW path, DecideTunnel(c, host, port)
    PROVE  Decide(c, host, port, path)
BY DEF DecideTunnel, Decide, RuleMatches

(* A connection that will be inspected is let through wherever one of its    *)
(* requests would be: DecideConnect refuses nothing that Decide allows       *)
(* (rules.go:204-223).                                                       *)
THEOREM ConnectIsLaxest ==
    ASSUME NEW c, NEW host, NEW port, NEW path, Decide(c, host, port, path)
    PROVE  DecideConnect(c, host, port)
BY DEF DecideConnect, Decide, RuleMatches

(* What was decided by the port as it was written stands for the port that   *)
(* is dialled, but for a deny rule that wrote the number in another way.     *)
LEMMA DecidedIsCovered ==
    ASSUME NEW c \in Conns, NEW default, NEW path,
           Decide(config, Host(c), conn[c].call.port, path)
    PROVE  LET r == [host |-> Host(c), port |-> conn[c].call.port,
                     number |-> Dialled(conn[c].call.port, default)]
           IN  /\ Restricted(config) => \E rule \in config.allow : Covers(rule, r, path)
               /\ \A rule \in config.deny : Covers(rule, r, path) => rule.port \notin {"", r.port}
BY DEF Decide, RuleMatches, MatchesHost, Covers, Dialled

LEMMA ReachedStays ==
    ASSUME EgressInv, config' = config, reached' = reached
    PROVE  ReachedWasAllowed'
BY DEF EgressInv, ReachedWasAllowed, Covers, Restricted

LEMMA ReachedByDecision ==
    ASSUME EgressInv, config' = config, NEW c \in Conns, NEW default, NEW paths,
           \A path \in paths : Decide(config, Host(c), conn[c].call.port, path),
           Reach(c, default, paths)
    PROVE  ReachedWasAllowed'
<1> DEFINE r == [host |-> Host(c), port |-> conn[c].call.port,
                 number |-> Dialled(conn[c].call.port, default), paths |-> paths]
           Fine(d, path) ==
              /\ Restricted(config) => \E rule \in config.allow : Covers(rule, d, path)
              /\ \A rule \in config.deny : Covers(rule, d, path) => rule.port \notin {"", d.port}
<1>1. reached' = reached \cup {r}
  BY DEF Reach
<1>2. ASSUME NEW path \in paths PROVE Fine(r, path)
  BY <1>2, DecidedIsCovered DEF Covers
<1>3. r.paths = paths
  OBVIOUS
<1>4. \A d \in reached : \A path \in d.paths : Fine(d, path)
  BY DEF EgressInv, ReachedWasAllowed
<1> HIDE DEF r, Fine
<1>5. \A d \in reached' : \A path \in d.paths : Fine(d, path)
  BY <1>1, <1>2, <1>3, <1>4
<1> QED BY <1>5 DEF ReachedWasAllowed, Fine, Restricted

-----------------------------------------------------------------------------
(* The shapes a connection is changed into.                                  *)
LEMMA OverIsConnection ==
    ASSUME NEW c \in Conns, conn[c] \in Connection
    PROVE  Over(c) \in Connection /\ Over(c).at = "over"
BY DEF Over, Connection, Stages

LEMMA AtIsConnection ==
    ASSUME NEW r \in Connection, NEW at \in Stages
    PROVE  LET s == [r EXCEPT !.at = at] IN s \in Connection /\ s.at = at /\ s.call = r.call
BY DEF Connection

LEMMA DialledIsConnection ==
    ASSUME NEW r \in Connection
    PROVE  LET s == [r EXCEPT !.at = "dialled", !.upstream = TRUE] IN s \in Connection /\ s.at = "dialled"
BY DEF Connection, Stages

LEMMA Updated ==
    ASSUME conn \in Connections, NEW c \in Conns, NEW r \in Connection, conn' = [conn EXCEPT ![c] = r]
    PROVE  conn' \in Connections /\ conn'[c] = r /\ \A d \in Conns \ {c} : conn'[d] = conn[d]
BY DEF Connections

(* Steps that reach nothing and move no connection towards a dial keep EgressInv.  *)
LEMMA Unmoved ==
    ASSUME EgressInv, config' = config, reached' = reached, conn' \in Connections,
           \A c \in Conns : /\ conn'[c].at \in {"hijacked", "dialling"} => conn'[c].at = conn[c].at
                            /\ conn'[c].call = conn[c].call \/ conn'[c].at \notin {"hijacked", "dialling"}
    PROVE  EgressInv'
<1>1. ReachedWasAllowed'
  BY DEF EgressInv, ReachedWasAllowed
<1>2. ASSUME NEW c \in Conns,
             \/ conn'[c].at = "hijacked" /\ ~Inspects(config, Host(c)')
             \/ conn'[c].at = "dialling"
      PROVE  DecideTunnel(config, Host(c)', conn'[c].call.port)
  <2>1. conn'[c].at = conn[c].at /\ conn'[c].call = conn[c].call
    BY <1>2
  <2>2. Host(c)' = Host(c)
    BY <2>1 DEF Host
  <2> QED BY <1>2, <2>1, <2>2 DEF EgressInv
<1> QED BY <1>1, <1>2 DEF EgressInv

LEMMA TrafficKeepsEgress ==
    ASSUME EgressInv, NEW c \in Conns, Traffic(c)
    PROVE  EgressInv'
<1> DEFINE Elsewhere == \A d \in Conns \ {c} : conn'[d] = conn[d]
           Now == conn'[c]
<1>a. conn \in Connections /\ conn[c] \in Connection
  BY DEF EgressInv, Connections
<1>b. Over(c) \in Connection /\ Over(c).at = "over"
  BY <1>a, OverIsConnection
<1>c. conn' = [conn EXCEPT ![c] = Over(c)] => conn' \in Connections /\ Elsewhere /\ Now.at = "over"
  BY <1>a, <1>b, Updated
<1>d. ASSUME NEW at \in Stages, conn' = [conn EXCEPT ![c] = [@ EXCEPT !.at = at]]
      PROVE  conn' \in Connections /\ Elsewhere /\ Now.at = at /\ Now.call = conn[c].call
  <2> DEFINE r == [conn[c] EXCEPT !.at = at]
  <2>1. r \in Connection /\ r.at = at /\ r.call = conn[c].call
    BY <1>a, AtIsConnection
  <2>2. conn' = [conn EXCEPT ![c] = r]
    BY <1>d
  <2> HIDE DEF r
  <2> QED BY <1>a, <2>1, <2>2, Updated
<1>e. ASSUME conn' \in Connections, Elsewhere, config' = config, reached' = reached,
             Now.at \notin {"hijacked", "dialling"}
      PROVE  EgressInv'
  BY <1>e, Unmoved
<1>1. CASE Forward(c)
  <2>1. conn' \in Connections /\ Elsewhere /\ Now.at = "over" /\ config' = config
    BY <1>1, <1>c DEF Forward
  <2>2. ReachedWasAllowed'
    <3> DEFINE path == Clean(conn[c].call.path)
    <3>1. CASE reached' = reached
      BY <2>1, <3>1, ReachedStays
    <3>2. CASE Decide(config, Host(c), conn[c].call.port, path) /\ Reach(c, 80, {path})
      BY <2>1, <3>2, ReachedByDecision
    <3> QED BY <1>1, <3>1, <3>2 DEF Forward
  <2> QED BY <2>1, <2>2 DEF EgressInv, Host
<1>2. CASE Connect(c)
  <2> DEFINE allowed == IF Inspects(config, Host(c)) THEN DecideConnect(config, Host(c), conn[c].call.port)
                        ELSE DecideTunnel(config, Host(c), conn[c].call.port)
  <2>1. config' = config /\ reached' = reached
    BY <1>2 DEF Connect
  <2>2. CASE ~allowed
    <3>1. conn' = [conn EXCEPT ![c] = Over(c)]
      BY <1>2, <2>2 DEF Connect
    <3> QED BY <2>1, <3>1, <1>c, <1>e
  <2>3. CASE allowed
    <3>1. conn' = [conn EXCEPT ![c] = [@ EXCEPT !.at = "hijacked"]]
      BY <1>2, <2>3 DEF Connect
    <3>2. conn' \in Connections /\ Elsewhere /\ Now.at = "hijacked" /\ Now.call = conn[c].call
      BY <3>1, <1>d DEF Stages
    <3>3. ReachedWasAllowed'
      BY <2>1 DEF EgressInv, ReachedWasAllowed
    <3> QED BY <2>1, <2>3, <3>2, <3>3 DEF EgressInv, Host
  <2> QED BY <2>2, <2>3
<1>3. CASE HoldClient(c)
  <2>1. config' = config /\ reached' = reached /\ conn[c].at = "hijacked"
    BY <1>3 DEF HoldClient
  <2>2. ReachedWasAllowed'
    BY <2>1 DEF EgressInv, ReachedWasAllowed
  <2>3. CASE conn' = [conn EXCEPT ![c] = Over(c)]
    BY <2>1, <2>3, <1>c, <1>e
  <2>4. CASE conn' = [conn EXCEPT ![c] = [@ EXCEPT !.at = "answering"]]
    BY <2>1, <2>4, <1>d, <1>e DEF Stages
  <2>5. CASE conn' = [conn EXCEPT ![c] = [@ EXCEPT !.at = "dialling"]] /\ ~Inspects(config, Host(c))
    <3>1. conn' \in Connections /\ Elsewhere /\ Now.at = "dialling" /\ Now.call = conn[c].call
      BY <2>5, <1>d DEF Stages
    <3> QED BY <2>1, <2>2, <2>5, <3>1 DEF EgressInv, Host
  <2> QED BY <1>3, <2>3, <2>4, <2>5 DEF HoldClient, Track
<1>4. CASE Dial(c)
  <2>1. conn' \in Connections /\ Elsewhere /\ Now.at \in {"over", "dialled"}
    <3>1. CASE conn' = [conn EXCEPT ![c] = Over(c)]
      BY <3>1, <1>c
    <3>2. CASE conn' = [conn EXCEPT ![c] = [@ EXCEPT !.at = "dialled", !.upstream = TRUE]]
      <4> DEFINE r == [conn[c] EXCEPT !.at = "dialled", !.upstream = TRUE]
      <4>1. r \in Connection /\ r.at = "dialled"
        BY <1>a, DialledIsConnection
      <4>2. conn' = [conn EXCEPT ![c] = r]
        BY <3>2
      <4> HIDE DEF r
      <4> QED BY <1>a, <4>1, <4>2, Updated
    <3> QED BY <1>4, <3>1, <3>2 DEF Dial
  <2>2. conn[c].at = "dialling" /\ config' = config
    BY <1>4 DEF Dial
  <2>3. \A path : Decide(config, Host(c), conn[c].call.port, path)
    BY <2>2, TunnelIsStrictest DEF EgressInv
  <2>4. ReachedWasAllowed'
    <3>1. CASE reached' = reached
      BY <2>2, <3>1, ReachedStays
    <3>2. CASE Reach(c, 0, Paths)
      BY <2>2, <2>3, <3>2, ReachedByDecision
    <3> QED BY <1>4, <3>1, <3>2 DEF Dial
  <2> QED BY <2>1, <2>2, <2>4 DEF EgressInv, Host
<1>5. CASE HoldUpstream(c)
  <2>1. CASE conn' = [conn EXCEPT ![c] = Over(c)]
    BY <1>5, <2>1, <1>c, <1>e DEF HoldUpstream
  <2>2. CASE conn' = [conn EXCEPT ![c] = [@ EXCEPT !.at = "answering"]]
    BY <1>5, <2>2, <1>d, <1>e DEF Stages, HoldUpstream
  <2> QED BY <1>5, <2>1, <2>2 DEF HoldUpstream, Track
<1>6. CASE Establish(c)
  <2>1. CASE conn' = [conn EXCEPT ![c] = Over(c)]
    BY <1>6, <2>1, <1>c, <1>e DEF Establish
  <2>2. CASE \E at \in {"serving", "relaying"} : conn' = [conn EXCEPT ![c] = [@ EXCEPT !.at = at]]
    BY <1>6, <2>2, <1>d, <1>e DEF Stages, Establish
  <2> QED BY <1>6, <2>1, <2>2 DEF Establish
<1>7. CASE HangUp(c)
  BY <1>7, <1>c, <1>e DEF HangUp
<1> QED BY <1>1, <1>2, <1>3, <1>4, <1>5, <1>6, <1>7 DEF Traffic

LEMMA NetworkKeepsEgress ==
    ASSUME EgressInv, Network
    PROVE  EgressInv'
<1>1. ASSUME NEW c \in Conns, NEW call \in Calls, Accept(c, call)
      PROVE  EgressInv'
  <2> DEFINE r == [at |-> "asked", call |-> call, client |-> TRUE, upstream |-> FALSE]
  <2>1. r \in Connection /\ r.at = "asked"
    BY DEF Connection, Stages
  <2>2. conn' = [conn EXCEPT ![c] = r]
    BY <1>1 DEF Accept
  <2> HIDE DEF r
  <2>3. conn' \in Connections /\ conn'[c] = r /\ \A d \in Conns \ {c} : conn'[d] = conn[d]
    BY <2>1, <2>2, Updated DEF EgressInv
  <2> QED BY <1>1, <2>1, <2>3, Unmoved DEF Accept
<1>2. ASSUME NEW c \in Conns, NEW request \in Requests, Serve(c, request)
      PROVE  EgressInv'
  <2>1. ReachedWasAllowed'
    BY <1>2, ReachedByDecision DEF Serve
  <2> QED BY <1>2, <2>1 DEF Serve, EgressInv, Host
<1> QED BY <1>1, <1>2, TrafficKeepsEgress DEF Network

LEMMA RunKeepsEgress ==
    ASSUME EgressInv, Run
    PROVE  EgressInv'
<1>1. CASE UNCHANGED egressVars
  BY <1>1, Unmoved DEF egressVars, EgressInv
<1>2. CASE Open \/ Cancel
  BY <1>2, Unmoved DEF Open, Cancel, EgressInv
<1>3. CASE Shut
  <2>1. conn' \in Connections /\ \A c \in Conns : conn'[c].at = conn[c].at /\ conn'[c].call = conn[c].call
    BY <1>3 DEF Shut, EgressInv, Connections, Connection
  <2> QED BY <1>3, <2>1, Unmoved DEF Shut
<1>4. CASE CutOff
  <2>1. conn' \in Connections /\ \A c \in Conns : conn'[c].at = conn[c].at /\ conn'[c].call = conn[c].call
    BY <1>4 DEF CutOff, EgressInv, Connections, Connection
  <2> QED BY <1>4, <2>1, Unmoved DEF CutOff
<1> QED
  BY <1>1, <1>2, <1>3, <1>4
     DEF Run, Prepare, GiveUp, StartSession, Launch, LaunchAdk, Launches, StepOpenCode, MessagePi,
         EventAdk, Turn, WriteDocument, Exit, Again, TimeOut, BreaksOff, Count, CountEvents, Counted,
         ReadOpenCode, ReadPi, ReadAdk, Reads, CloseSession, Return

-----------------------------------------------------------------------------
(* For all deployments, rules, connections, requests and jobs: nothing is    *)
(* ever reached that the operator's rules do not allow, not even by a tunnel *)
(* that was let through before the session was closed.                       *)
THEOREM ReachedWasAllowedTheorem == Spec => []ReachedWasAllowed
<1>1. Init => EgressInv
  <2>1. Idle \in Connection /\ Idle.at = "none"
    BY DEF Idle, Connection, Stages
  <2> QED BY <2>1 DEF Init, EgressInit, EgressInv, ReachedWasAllowed, Connections
<1>2. EgressInv /\ [Next]_vars => EgressInv'
  <2> SUFFICES ASSUME EgressInv, [Next]_vars
               PROVE  EgressInv'
    OBVIOUS
  <2>1. CASE Run
    BY <2>1, RunKeepsEgress
  <2>2. CASE Network
    BY <2>2, NetworkKeepsEgress
  <2>3. CASE UNCHANGED vars
    BY <2>3, Unmoved DEF vars, egressVars, EgressInv
  <2> QED BY <2>1, <2>2, <2>3 DEF Next
<1>3. EgressInv => ReachedWasAllowed
  BY DEF EgressInv
<1> QED BY <1>1, <1>2, <1>3, PTL DEF Spec

-----------------------------------------------------------------------------
(* What Close can rely on: until it cuts, every end of a connection that was *)
(* taken from the server is recorded, and afterwards none is still open.     *)
Held == {"dialling", "dialled", "answering", "relaying", "serving"}
Joined == {"answering", "relaying", "serving"}

\* The ends of a connection are recorded until the session is closed, and shut after.
Covered(c) ==
    /\ conn[c].upstream => conn[c].at \in Joined \cup {"dialled"}
    /\ session # "closed" =>
          /\ conn[c].at \in Held => <<c, "client">> \in tracked
          /\ conn[c].at \in Joined /\ conn[c].upstream => <<c, "upstream">> \in tracked
    /\ session = "closed" =>
          /\ conn[c].at \in Held => ~conn[c].client
          /\ conn[c].at \in Joined => ~conn[c].upstream

NetInv ==
    /\ conn \in Connections
    /\ session = "none" => \A c \in Conns : conn[c].at = "none"
    /\ \A c \in Conns : Covered(c)

RunInv ==
    /\ phase = "start" => ~dir /\ session = "none"
    /\ phase = "returned" => ~dir /\ session \in {"none", "closed"}
    /\ agent = "running" => phase = "running"

-----------------------------------------------------------------------------
(* A step of one connection keeps the invariant if its own ends stay covered *)
(* and nothing of another connection is forgotten.                           *)
LEMMA OneConnection ==
    ASSUME NetInv, session' = session, session # "none",
           NEW c \in Conns, NEW r \in Connection, conn' = [conn EXCEPT ![c] = r],
           Untracked(c) \subseteq tracked',
           r.at \in Held => session # "closed" /\ <<c, "client">> \in tracked',
           r.upstream => r.at \in Joined \cup {"dialled"},
           r.at \in Joined /\ r.upstream => <<c, "upstream">> \in tracked'
    PROVE  NetInv'
<1>1. conn' \in Connections /\ conn'[c] = r /\ \A d \in Conns \ {c} : conn'[d] = conn[d]
  BY Updated DEF NetInv
<1>2. Covered(c)'
  BY <1>1 DEF Covered, Held, Joined
<1>3. ASSUME NEW d \in Conns \ {c}
      PROVE  Covered(d)'
  <2>1. \A end : <<d, end>> \in tracked => <<d, end>> \in tracked'
    BY <1>3 DEF Untracked
  <2> QED BY <1>1, <2>1 DEF Covered, NetInv
<1> QED BY <1>1, <1>2, <1>3 DEF NetInv

LEMMA OverKeepsNet ==
    ASSUME NetInv, session' = session, session # "none", NEW c \in Conns,
           conn' = [conn EXCEPT ![c] = Over(c)], Untracked(c) \subseteq tracked'
    PROVE  NetInv'
<1>1. conn[c] \in Connection
  BY DEF NetInv, Connections
<1>2. Over(c) \in Connection /\ Over(c).at = "over" /\ ~Over(c).upstream
  BY <1>1 DEF Over, Connection, Stages
<1> QED BY <1>2, OneConnection DEF Held, Joined

LEMMA TrackKeepsNet ==
    ASSUME NetInv, session' = session, session # "none", NEW c \in Conns, NEW end \in {"client", "upstream"},
           end = "client" => ~conn[c].upstream,
           end = "upstream" => conn[c].at \in Held,
           Track(c, end)
    PROVE  NetInv'
<1>1. conn[c] \in Connection
  BY DEF NetInv, Connections
<1>2. CASE session = "closed"
  BY <1>2, OverKeepsNet DEF Track
<1>3. CASE session # "closed"
  <2> DEFINE at == IF end = "client" /\ ~Inspects(config, Host(c)) THEN "dialling" ELSE "answering"
             r == [conn[c] EXCEPT !.at = at]
  <2>1. conn' = [conn EXCEPT ![c] = r] /\ tracked' = tracked \cup {<<c, end>>}
    BY <1>3 DEF Track
  <2>2. at \in {"dialling", "answering"} /\ (end = "upstream" => at = "answering")
    OBVIOUS
  <2> HIDE DEF at
  <2>3. r \in Connection /\ r.at = at /\ r.upstream = conn[c].upstream
    BY <1>1, <2>2 DEF Connection, Stages
  <2> HIDE DEF r
  <2>4. <<c, "client">> \in tracked'
    BY <1>3, <2>1 DEF NetInv, Covered
  <2>5. r.upstream => end = "upstream"
    BY <2>3
  <2>6. r.upstream => r.at = "answering" /\ <<c, "upstream">> \in tracked'
    BY <2>1, <2>2, <2>3, <2>5
  <2>7. Untracked(c) \subseteq tracked'
    BY <2>1 DEF Untracked
  <2> QED BY <1>3, <2>1, <2>3, <2>4, <2>6, <2>7, OneConnection DEF Joined
<1> QED BY <1>2, <1>3

LEMMA TrafficKeepsNet ==
    ASSUME NetInv, NEW c \in Conns, Traffic(c)
    PROVE  NetInv'
<1>a. conn[c] \in Connection /\ Covered(c)
  BY DEF NetInv, Connections
<1>b. session' = session
  BY DEF Traffic, Forward, Connect, HoldClient, Dial, HoldUpstream, Establish, HangUp
<1>c. conn[c].at # "none"
  BY DEF Traffic, Forward, Connect, HoldClient, Dial, HoldUpstream, Establish, HangUp
<1>d. session # "none"
  BY <1>c DEF NetInv
<1>e. ASSUME conn' = [conn EXCEPT ![c] = Over(c)], Untracked(c) \subseteq tracked'
      PROVE  NetInv'
  BY <1>b, <1>d, <1>e, OverKeepsNet
<1>f. Untracked(c) \subseteq tracked
  BY DEF Untracked
<1>1. CASE Forward(c)
  BY <1>1, <1>e, <1>f DEF Forward
<1>2. CASE Connect(c)
  <2>1. tracked' = tracked /\ conn[c].at = "asked"
    BY <1>2 DEF Connect
  <2>2. CASE conn' = [conn EXCEPT ![c] = Over(c)]
    BY <2>1, <2>2, <1>e, <1>f
  <2>3. CASE conn' = [conn EXCEPT ![c] = [conn[c] EXCEPT !.at = "hijacked"]]
    <3> DEFINE r == [conn[c] EXCEPT !.at = "hijacked"]
    <3>1. r \in Connection /\ r.at = "hijacked" /\ r.upstream = conn[c].upstream
      BY <1>a DEF Connection, Stages
    <3>2. ~conn[c].upstream
      BY <1>a, <2>1 DEF Covered, Joined
    <3>3. conn' = [conn EXCEPT ![c] = r]
      BY <2>3
    <3> HIDE DEF r
    <3> QED BY <1>b, <1>d, <1>f, <2>1, <3>1, <3>2, <3>3, OneConnection DEF Held, Joined
  <2> QED BY <1>2, <2>2, <2>3 DEF Connect
<1>3. CASE HoldClient(c)
  <2>1. Track(c, "client") /\ ~conn[c].upstream
    BY <1>3, <1>a DEF HoldClient, Covered, Joined
  <2> QED BY <2>1, <1>b, <1>d, TrackKeepsNet
<1>4. CASE Dial(c)
  <2>1. CASE conn' = [conn EXCEPT ![c] = Over(c)] /\ tracked' = Untracked(c)
    BY <2>1, <1>e
  <2>2. CASE /\ session = "open" /\ tracked' = tracked
             /\ conn' = [conn EXCEPT ![c] = [@ EXCEPT !.at = "dialled", !.upstream = TRUE]]
    <3> DEFINE r == [conn[c] EXCEPT !.at = "dialled", !.upstream = TRUE]
    <3>1. r \in Connection /\ r.at = "dialled"
      BY <1>a, DialledIsConnection
    <3>2. conn' = [conn EXCEPT ![c] = r]
      BY <2>2
    <3>3. <<c, "client">> \in tracked
      BY <1>4, <1>a, <2>2 DEF Dial, Covered, Held
    <3>4. session # "closed" /\ tracked' = tracked
      BY <2>2
    <3> HIDE DEF r
    <3> QED BY <1>b, <1>d, <1>f, <3>1, <3>2, <3>3, <3>4, OneConnection DEF Joined
  <2> QED BY <1>4, <2>1, <2>2 DEF Dial
<1>5. CASE HoldUpstream(c)
  <2>1. Track(c, "upstream") /\ conn[c].at \in Held
    BY <1>5 DEF HoldUpstream, Held
  <2> QED BY <2>1, <1>b, <1>d, TrackKeepsNet
<1>6. CASE Establish(c)
  <2>1. CASE conn' = [conn EXCEPT ![c] = Over(c)] /\ tracked' = Untracked(c)
    BY <2>1, <1>e
  <2>2. CASE /\ conn[c].client /\ tracked' = tracked
             /\ conn' = [conn EXCEPT ![c].at = IF Inspects(config, Host(c)) THEN "serving" ELSE "relaying"]
    <3>1. PICK at \in {"serving", "relaying"} : conn' = [conn EXCEPT ![c] = [conn[c] EXCEPT !.at = at]]
      BY <2>2
    <3> DEFINE r == [conn[c] EXCEPT !.at = at]
    <3>2. r \in Connection /\ r.at = at /\ r.upstream = conn[c].upstream
      BY <1>a, <3>1 DEF Connection, Stages
    <3>3. conn' = [conn EXCEPT ![c] = r]
      BY <3>1
    <3>4. conn[c].at = "answering"
      BY <1>6 DEF Establish
    <3>5. session # "closed" /\ <<c, "client">> \in tracked
      BY <1>a, <2>2, <3>4 DEF Covered, Held
    <3>6. conn[c].upstream => <<c, "upstream">> \in tracked
      BY <1>a, <3>4, <3>5 DEF Covered, Joined
    <3>7. tracked' = tracked
      BY <2>2
    <3> HIDE DEF r
    <3> QED BY <1>b, <1>d, <1>f, <3>1, <3>2, <3>3, <3>5, <3>6, <3>7, OneConnection DEF Joined
  <2> QED BY <1>6, <2>1, <2>2 DEF Establish
<1>7. CASE HangUp(c)
  BY <1>7, <1>e DEF HangUp
<1> QED BY <1>1, <1>2, <1>3, <1>4, <1>5, <1>6, <1>7 DEF Traffic

-----------------------------------------------------------------------------
LEMMA NetworkKeepsNet ==
    ASSUME NetInv, Network
    PROVE  NetInv'
<1>1. ASSUME NEW c \in Conns, NEW call \in Calls, Accept(c, call)
      PROVE  NetInv'
  <2> DEFINE r == [at |-> "asked", call |-> call, client |-> TRUE, upstream |-> FALSE]
  <2>1. r \in Connection /\ r.at = "asked" /\ ~r.upstream
    BY DEF Connection, Stages
  <2>2. conn' = [conn EXCEPT ![c] = r]
    BY <1>1 DEF Accept
  <2> HIDE DEF r
  <2> QED BY <1>1, <2>1, <2>2, OneConnection DEF Accept, Untracked, Held, Joined
<1>2. ASSUME NEW c \in Conns, NEW request \in Requests, Serve(c, request)
      PROVE  NetInv'
  BY <1>2 DEF Serve, NetInv, Covered
<1> QED BY <1>1, <1>2, TrafficKeepsNet DEF Network

\* Shut: connections the server still has are closed, the others are not touched.
LEMMA ShutKeepsNet ==
    ASSUME NetInv, Shut
    PROVE  NetInv'
<1>1. ASSUME NEW c \in Conns
      PROVE  /\ conn'[c] \in Connection /\ conn'[c].at = conn[c].at
             /\ conn'[c].upstream = conn[c].upstream
  BY DEF Shut, NetInv, Connections, Connection
<1>2. conn' = [c \in Conns |-> conn'[c]] /\ tracked' = tracked /\ session = "cancelled" /\ session' = "shut"
  BY DEF Shut
<1>3. conn' \in Connections
  BY <1>1, <1>2 DEF Connections
<1> QED BY <1>1, <1>2, <1>3 DEF NetInv, Covered

\* What is recorded is closed, so all that was taken from the server is.
LEMMA CutOffKeepsNet ==
    ASSUME NetInv, CutOff
    PROVE  NetInv'
<1>1. ASSUME NEW c \in Conns
      PROVE  /\ conn'[c] \in Connection /\ conn'[c].at = conn[c].at
             /\ conn'[c].client = (conn[c].client /\ <<c, "client">> \notin tracked)
             /\ conn'[c].upstream = (conn[c].upstream /\ <<c, "upstream">> \notin tracked)
  BY DEF CutOff, NetInv, Connections, Connection
<1>2. conn' = [c \in Conns |-> conn'[c]] /\ session = "shut" /\ session' = "closed"
  BY DEF CutOff
<1>3. conn' \in Connections
  BY <1>1, <1>2 DEF Connections
<1>4. ASSUME NEW c \in Conns
      PROVE  Covered(c)'
  BY <1>1, <1>2 DEF NetInv, Covered
<1> QED BY <1>2, <1>3, <1>4 DEF NetInv

LEMMA SessionKeepsNet ==
    ASSUME NetInv, Open \/ Cancel \/ Shut \/ CutOff \/ UNCHANGED egressVars
    PROVE  NetInv'
<1>1. CASE Open
  BY <1>1 DEF Open, NetInv, Covered
<1>2. CASE Cancel
  BY <1>2 DEF Cancel, NetInv, Covered
<1>3. CASE UNCHANGED egressVars
  BY <1>3 DEF egressVars, NetInv, Covered
<1> QED BY <1>1, <1>2, <1>3, ShutKeepsNet, CutOffKeepsNet

LEMMA RunKeepsNet ==
    ASSUME NetInv, Run
    PROVE  NetInv'
BY SessionKeepsNet
   DEF Run, Prepare, GiveUp, StartSession, Launch, LaunchAdk, Launches, StepOpenCode, MessagePi,
       EventAdk, Turn, WriteDocument, Exit, Again, TimeOut, BreaksOff, Count, CountEvents, Counted,
       ReadOpenCode, ReadPi, ReadAdk, Reads, CloseSession, Return

-----------------------------------------------------------------------------
(* The directory and the agent: every way to the end of Run comes past the    *)
(* deferred calls, and whoever waits for an agent sees it end.                *)
LEMMA RunKeepsRun ==
    ASSUME RunInv, Run
    PROVE  RunInv'
<1>1. CASE Prepare \/ GiveUp
  BY <1>1 DEF RunInv, Prepare, GiveUp, Give, egressVars
<1>2. CASE StartSession
  BY <1>2 DEF RunInv, StartSession
<1>3. CASE Launch \/ LaunchAdk
  BY <1>3 DEF RunInv, Launch, LaunchAdk, Launches
<1>4. CASE \E reported, said \in BOOLEAN :
              \/ StepOpenCode(reported, said)
              \/ \E failed \in BOOLEAN : MessagePi(reported, said, failed) \/ EventAdk(reported, said, failed)
  BY <1>4 DEF RunInv, StepOpenCode, MessagePi, EventAdk, Turn, egressVars
<1>5. CASE WriteDocument \/ Exit \/ Again \/ TimeOut
  BY <1>5 DEF RunInv, WriteDocument, Exit, Again, TimeOut, Give, egressVars
<1>6. CASE \E f \in Failures : BreaksOff(f)
  BY <1>6 DEF RunInv, BreaksOff, Give, egressVars
<1>7. CASE Count \/ CountEvents \/ ReadOpenCode \/ ReadPi \/ ReadAdk
  BY <1>7 DEF RunInv, Count, CountEvents, Counted, ReadOpenCode, ReadPi, ReadAdk, Reads, egressVars
<1>8. CASE CloseSession
  BY <1>8 DEF RunInv, CloseSession
<1>9. CASE Return
  BY <1>9 DEF RunInv, Return, egressVars
<1> QED BY <1>1, <1>2, <1>3, <1>4, <1>5, <1>6, <1>7, <1>8, <1>9 DEF Run

LEMMA NetworkKeepsRun ==
    ASSUME RunInv, Network
    PROVE  RunInv'
<1>1. session' = session
  BY DEF Network, Accept, Serve, Traffic, Forward, Connect, HoldClient, Dial, HoldUpstream, Establish, HangUp
<1> QED BY <1>1 DEF Network, engineVars, RunInv

(* For all deployments, rules, connections, requests and jobs: when Run has   *)
(* returned, its directory and its agent are gone and no connection of its    *)
(* session carries anything, however the end of the run and the handlers of   *)
(* the proxy interleaved.                                                     *)
THEOREM NothingOutlivesTheRunTheorem == Spec => []NothingOutlivesTheRun
<1>1. Init => NetInv /\ RunInv
  <2> SUFFICES ASSUME Init
               PROVE  NetInv /\ RunInv
    OBVIOUS
  <2>1. Idle \in Connection /\ Idle.at = "none" /\ ~Idle.upstream
    BY DEF Idle, Connection, Stages
  <2>2. conn \in Connections /\ \A c \in Conns : conn[c].at = "none" /\ ~conn[c].upstream
    BY <2>1 DEF Init, EgressInit, Connections
  <2> QED BY <2>2 DEF Init, EgressInit, NetInv, Covered, RunInv, Held, Joined
<1>2. NetInv /\ RunInv /\ [Next]_vars => (NetInv /\ RunInv)'
  <2> SUFFICES ASSUME NetInv, RunInv, [Next]_vars
               PROVE  NetInv' /\ RunInv'
    OBVIOUS
  <2>1. CASE Run
    BY <2>1, RunKeepsNet, RunKeepsRun
  <2>2. CASE Network
    BY <2>2, NetworkKeepsNet, NetworkKeepsRun
  <2>3. CASE UNCHANGED vars
    <3>1. UNCHANGED egressVars /\ UNCHANGED <<phase, dir, agent, session>>
      BY <2>3 DEF vars, engineVars, egressVars
    <3> QED BY <3>1, SessionKeepsNet DEF RunInv
  <2> QED BY <2>1, <2>2, <2>3 DEF Next
<1>3. NetInv /\ RunInv => NothingOutlivesTheRun
  BY DEF NetInv, RunInv, Covered, NothingOutlivesTheRun, Held, Joined
<1> QED BY <1>1, <1>2, <1>3, PTL DEF Spec

-----------------------------------------------------------------------------
(* The usage of a result is what its runs told of, for any number of steps,   *)
(* of runs that broke off, and of ends of steps that went missing. The        *)
(* invariant keeps the account while it is in two places: what earlier runs   *)
(* spent is a number, what the present run spent is still in its events.      *)

\* Steps are numbered on, so that a new one is in no stream yet.
Record ==
    /\ IsFiniteSet(record) /\ record \subseteq 0 .. Cardinality(record)
    /\ stream.started \subseteq record /\ told \subseteq record
    /\ stream.finished \subseteq stream.started

Account ==
    /\ broken \in Nat
    /\ phase \in {"start", "prepared", "ready"} => Cardinality(told) = broken
    /\ phase \in {"running", "ran"} =>
          /\ stream.finished \subseteq told
          /\ told \cap stream.started \subseteq stream.finished
          /\ Cardinality(told) = broken + Cardinality(stream.finished)
    /\ phase = "counted" => usage = Cardinality(told)
    /\ outcome = "ok" => phase \in {"closing", "returned"} /\ usage = Cardinality(told)

SpendInv == Record /\ Account

-----------------------------------------------------------------------------
LEMMA Finite ==
    ASSUME Record, NEW S \in SUBSET record
    PROVE  IsFiniteSet(S) /\ Cardinality(S) \in Nat
BY FS_Subset, FS_CardinalityType DEF Record

(* A step is a new one in the record, in the run's events and in what was     *)
(* told, or its end is told of nowhere.                                       *)
LEMMA TurnKeepsSpend ==
    ASSUME SpendInv, NEW engine, NEW reported, NEW text, NEW failed, Turn(engine, reported, text, failed)
    PROVE  SpendInv'
<1> DEFINE s == Cardinality(record) + 1
<1>1. /\ record' = record \cup {s} /\ stream'.started = stream.started \cup {s}
      /\ stream'.finished = IF reported THEN stream.finished \cup {s} ELSE stream.finished
      /\ told' = IF reported THEN told \cup {s} ELSE told
      /\ phase = "running" /\ phase' = "running"
      /\ broken' = broken /\ outcome' = outcome /\ usage' = usage
  BY DEF Turn
<1>2. /\ Cardinality(record) \in Nat /\ IsFiniteSet(record)
      /\ IsFiniteSet(told) /\ Cardinality(told) \in Nat
      /\ IsFiniteSet(stream.finished) /\ Cardinality(stream.finished) \in Nat
  <2>1. told \in SUBSET record /\ stream.finished \in SUBSET record /\ record \in SUBSET record
    BY DEF SpendInv, Record
  <2> QED BY <2>1, Finite DEF SpendInv
<1>3. s \notin record
  BY <1>2 DEF SpendInv, Record
<1>4. s \notin told /\ s \notin stream.finished
  BY <1>3 DEF SpendInv, Record
<1>5. IsFiniteSet(record') /\ Cardinality(record') = s
  BY <1>1, <1>2, <1>3, FS_AddElement
<1>6. /\ Cardinality(told \cup {s}) = Cardinality(told) + 1
      /\ Cardinality(stream.finished \cup {s}) = Cardinality(stream.finished) + 1
  BY <1>2, <1>4, FS_AddElement
<1>7. s \in Nat /\ Cardinality(record) \in Nat /\ Cardinality(record) < s
  BY <1>2
<1> HIDE DEF s
<1>8. Record'
  <2>1. record' \subseteq 0 .. Cardinality(record')
    BY <1>1, <1>5, <1>7 DEF SpendInv, Record
  <2> QED BY <1>1, <1>5, <2>1 DEF SpendInv, Record
<1>9. Cardinality(told') = broken' + Cardinality(stream'.finished)
  <2>1. Cardinality(told) = broken + Cardinality(stream.finished) /\ broken \in Nat
    BY <1>1 DEF SpendInv, Account
  <2>2. CASE reported
    <3>1. told' = told \cup {s} /\ stream'.finished = stream.finished \cup {s}
      BY <1>1, <2>2
    <3> QED BY <1>1, <1>2, <1>6, <2>1, <3>1
  <2>3. CASE ~reported
    BY <1>1, <2>1, <2>3
  <2> QED BY <2>2, <2>3
<1>10. stream'.finished \subseteq told' /\ told' \cap stream'.started \subseteq stream'.finished
  BY <1>1, <1>4 DEF SpendInv, Account
<1> QED BY <1>1, <1>8, <1>9, <1>10 DEF SpendInv, Account

(* What a run that broke off spent moves from its events into the number.     *)
LEMMA BreaksOffKeepsSpend ==
    ASSUME SpendInv, NEW f, BreaksOff(f)
    PROVE  SpendInv'
<1>1. /\ phase = "running" /\ UNCHANGED <<stream, record, told, usage>>
      /\ \/ phase' = "ready" /\ broken' = broken + Cardinality(stream.finished) /\ outcome' = outcome
         \/ phase' = "closing" /\ outcome' = "error" /\ broken' = broken
  BY DEF BreaksOff, Absorb, Give
<1>2. Cardinality(stream.finished) \in Nat
  <2>1. stream.finished \in SUBSET record
    BY DEF SpendInv, Record
  <2> QED BY <2>1, Finite DEF SpendInv
<1> QED BY <1>1, <1>2 DEF SpendInv, Record, Account

\* A run without the stored session said nothing at all.
LEMMA AgainKeepsSpend ==
    ASSUME SpendInv, Again
    PROVE  SpendInv'
<1>1. phase = "running" /\ phase' = "ready" /\ UNCHANGED <<stream, record, told, broken, usage, outcome>>
  BY DEF Again
<1>2. stream.finished = {}
  BY DEF Again, Silence
<1>3. Cardinality(stream.finished) = 0
  BY <1>2, FS_EmptySet
<1> QED BY <1>1, <1>3 DEF SpendInv, Record, Account

\* A run begins with an empty stream.
LEMMA LaunchKeepsSpend ==
    ASSUME SpendInv, Launch \/ LaunchAdk
    PROVE  SpendInv'
<1>1. /\ phase = "ready" /\ phase' = "running" /\ UNCHANGED <<record, told, broken, usage, outcome>>
      /\ stream'.started = {} /\ stream'.finished = {}
  BY DEF Launch, LaunchAdk, Launches, Silence
<1>2. Cardinality(stream'.finished) = 0
  BY <1>1, FS_EmptySet
<1> QED BY <1>1, <1>2 DEF SpendInv, Record, Account

(* The result: what the events told of, what the record says of the steps     *)
(* they did not end, and what was spent before.                               *)
LEMMA CountedKeepsSpend ==
    ASSUME SpendInv, NEW found \in SUBSET record, Counted(Recovered(found)),
           told' = told \cup (found \cap stream.started)
    PROVE  SpendInv'
<1> DEFINE more == Recovered(found)
<1>1. /\ phase = "ran" /\ phase' = "counted" /\ UNCHANGED <<stream, record, broken, outcome>>
      /\ usage' = Cardinality(stream.finished) + Cardinality(more) + broken
  BY DEF Counted
<1>2. /\ told' = told \cup more /\ told \cap more = {}
      /\ more \in SUBSET record /\ told \in SUBSET record /\ stream.finished \in SUBSET record
  <2>1. /\ stream.finished \subseteq told /\ told \cap stream.started \subseteq stream.finished
        /\ stream.started \subseteq record /\ told \subseteq record /\ stream.finished \subseteq stream.started
    BY <1>1 DEF SpendInv, Record, Account
  <2>2. more = found \cap (stream.started \ stream.finished)
    BY DEF Recovered
  <2> HIDE DEF more
  <2>3. told' = told \cup more
    BY <2>1, <2>2
  <2>4. told \cap more = {}
    BY <2>1, <2>2
  <2> QED BY <2>1, <2>2, <2>3, <2>4
<1> HIDE DEF more
<1>3. /\ IsFiniteSet(told) /\ Cardinality(told) \in Nat
      /\ IsFiniteSet(more) /\ Cardinality(more) \in Nat
      /\ Cardinality(stream.finished) \in Nat
  BY <1>2, Finite DEF SpendInv
<1>4. Cardinality(told') = Cardinality(told) + Cardinality(more)
  <2>1. Cardinality(told \cup more) = Cardinality(told) + Cardinality(more) - Cardinality(told \cap more)
    BY <1>3, FS_Union
  <2>2. Cardinality(told \cap more) = 0
    BY <1>2, FS_EmptySet
  <2>3. Cardinality(told \cup more) = Cardinality(told) + Cardinality(more)
    BY <1>3, <2>1, <2>2
  <2> QED BY <1>2, <2>3
<1>5. Cardinality(told) = broken + Cardinality(stream.finished) /\ broken \in Nat
  BY <1>1 DEF SpendInv, Account
<1>6. usage' = Cardinality(told')
  BY <1>1, <1>3, <1>4, <1>5
<1>7. Record'
  BY <1>1, <1>2 DEF SpendInv, Record
<1>8. outcome' # "ok" /\ broken' \in Nat
  BY <1>1 DEF SpendInv, Account
<1> QED BY <1>1, <1>6, <1>7, <1>8 DEF SpendInv, Account

LEMMA CountKeepsSpend ==
    ASSUME SpendInv, Count \/ CountEvents
    PROVE  SpendInv'
<1>1. CASE Count
  <2>1. PICK found \in {{}, record} \cup {{s} : s \in record} :
            Counted(Recovered(found)) /\ told' = told \cup (found \cap stream.started)
    BY <1>1 DEF Count
  <2>2. found \in SUBSET record
    OBVIOUS
  <2> QED BY <2>1, <2>2, CountedKeepsSpend
<1>2. CASE CountEvents
  <2>1. Recovered({}) = {} /\ told' = told \cup ({} \cap stream.started) /\ {} \in SUBSET record
    BY <1>2 DEF CountEvents, Recovered
  <2>2. Counted(Recovered({}))
    BY <1>2, <2>1 DEF CountEvents
  <2> QED BY <2>1, <2>2, CountedKeepsSpend
<1> QED BY <1>1, <1>2

\* The other steps leave the account alone.
LEMMA QuietKeepsSpend ==
    ASSUME SpendInv, UNCHANGED <<stream, record, told, broken, usage>>,
           \/ phase' = phase /\ outcome' = outcome
           \/ phase \in {"start", "prepared"} /\ phase' \in {"prepared", "ready"} /\ outcome' = outcome
           \/ phase = "running" /\ phase' = "ran" /\ outcome' = outcome
           \/ phase' \in {"closing", "returned"} /\ outcome' = "error"
           \/ phase = "counted" /\ phase' = "closing"
           \/ phase = "closing" /\ phase' = "returned" /\ outcome' = outcome
    PROVE  SpendInv'
BY DEF SpendInv, Record, Account

-----------------------------------------------------------------------------
(* For all deployments and jobs, and any number of steps: a result names the  *)
(* tokens of every step that one of its runs told of, and of none twice.      *)
THEOREM SpendReportedTheorem == Spec => []SpendReported
<1>1. Init => SpendInv
  <2> SUFFICES ASSUME Init
               PROVE  SpendInv
    OBVIOUS
  <2>1. IsFiniteSet({}) /\ Cardinality({}) = 0 /\ IsFiniteSet({0}) /\ Cardinality({0}) = 1
    BY FS_EmptySet, FS_Singleton
  <2>2. record = {} \/ record = {0}
    BY DEF Init, Stored, Earlier
  <2>3. IsFiniteSet(record) /\ record \subseteq 0 .. Cardinality(record)
    BY <2>1, <2>2
  <2>4. stream.started = {} /\ stream.finished = {} /\ told = {} /\ broken = 0
    BY DEF Init, Silence
  <2>5. phase = "start" /\ outcome = "none"
    BY DEF Init
  <2> QED BY <2>1, <2>3, <2>4, <2>5 DEF SpendInv, Record, Account
<1>2. SpendInv /\ [Next]_vars => SpendInv'
  <2> SUFFICES ASSUME SpendInv, [Next]_vars
               PROVE  SpendInv'
    OBVIOUS
  <2>1. CASE UNCHANGED engineVars
    BY <2>1, QuietKeepsSpend DEF engineVars
  <2>2. CASE Prepare \/ GiveUp \/ StartSession \/ WriteDocument \/ Exit \/ TimeOut
    BY <2>2, QuietKeepsSpend DEF Prepare, GiveUp, StartSession, WriteDocument, Exit, TimeOut, Give
  <2>3. CASE ReadOpenCode \/ ReadPi \/ ReadAdk \/ CloseSession \/ Return
    BY <2>3, QuietKeepsSpend DEF ReadOpenCode, ReadPi, ReadAdk, Reads, CloseSession, Return
  <2>4. CASE \E reported, said \in BOOLEAN :
                \/ StepOpenCode(reported, said)
                \/ \E failed \in BOOLEAN : MessagePi(reported, said, failed) \/ EventAdk(reported, said, failed)
    BY <2>4, TurnKeepsSpend DEF StepOpenCode, MessagePi, EventAdk
  <2>5. CASE \E f \in Failures : BreaksOff(f)
    BY <2>5, BreaksOffKeepsSpend
  <2>6. CASE Network \/ UNCHANGED vars
    BY <2>1, <2>6 DEF Network, vars
  <2> QED BY <2>2, <2>3, <2>4, <2>5, <2>6, AgainKeepsSpend, LaunchKeepsSpend, CountKeepsSpend DEF Next, Run
<1>3. SpendInv => SpendReported
  BY DEF SpendInv, Account, SpendReported
<1> QED BY <1>1, <1>2, <1>3, PTL DEF Spec
=============================================================================
