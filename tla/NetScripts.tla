----------------------------- MODULE NetScripts -----------------------------
(***************************************************************************)
(* The scripts that set up and remove the network of the host and of the   *)
(* guest, and the one that switches zeroing.  What exists on the machine is *)
(* a set of facts; a command fails when a fact it needs is missing or one   *)
(* it would create is there.  Under set -e the script then ends.  Any       *)
(* command may also fail, or the script be interrupted, for no such reason. *)
(***************************************************************************)
EXTENDS Integers, Sequences

CONSTANTS
  Shell,      \* where toggle_skb_zeroing.sh is run
  MaxBreaks,  \* bound on failures and interruptions
  MaxTries    \* scripts run in a row to repair the network

ASSUME NetAssumption == MaxBreaks \in Nat /\ MaxTries \in Nat

VARIABLES
  machine,    \* which machine, set up in which way
  net,        \* the facts that hold
  script, pc, \* the script that runs, or ran last, and its next command
  status,     \* whether it runs and how it ended
  breaks,     \* failures and interruptions so far
  skb_zeroing, current_value, stale  \* the sysctl; per shell: what it read, whether it is outdated

netvars == <<machine, net, script, pc, status, breaks, skb_zeroing, current_value, stale>>
-----------------------------------------------------------------------------
(* A command, by what must hold, what must not, and what it changes.       *)
Cmd(needs, clash, adds, dels) == [needs |-> needs, clash |-> clash, adds |-> adds, dels |-> dels]
Create(x) == Cmd({}, {x}, {x}, {})
Add(needs, x) == Cmd(needs, {x}, {x}, {})
Set(needs, x) == Cmd(needs, {}, {x}, {})

Tap(i) == <<"tap", i>>
IpAddr(i) == <<"addr", i>>
Up(i) == <<"up", i>>
Route(i) == <<"route", i>>
Ns(i) == <<"ns", i>>
Veth(i) == <<"veth", i>>      \* the pair of veth and vpeer
Br(i) == <<"br", i>>
VethNs(i) == <<"veth netns", i>>
VethAddr(i) == <<"veth addr", i>>
VethUp(i) == <<"veth up", i>>
Default(i) == <<"default", i>>
LoUp(i) == <<"lo up", i>>
TapMaster(i) == <<"tap master", i>>
VpeerMaster(i) == <<"vpeer master", i>>
VpeerUp(i) == <<"vpeer up", i>>
BrUp(i) == <<"br up", i>>
Forward == <<"forward", "">>

OfTap(i) == {Tap(i), IpAddr(i), Up(i), Route(i), TapMaster(i)}
OfVeth(i) == {Veth(i), VethNs(i), VethAddr(i), VethUp(i), Default(i), VpeerMaster(i), VpeerUp(i)}
OfBr(i) == {Br(i), BrUp(i), TapMaster(i), VpeerMaster(i)}
OfNs(i) == {Ns(i), LoUp(i)}

(* Mutant: the route is added before the address.                          *)
setup_host_net_RouteFirst ==
  <<Create(Tap("")), Set({Tap("")}, Up("")), Add({Up("")}, Route("")),
    Add({Tap("")}, IpAddr(""))>>

setup_host_net ==
  <<Create(Tap("")), Set({Tap("")}, Up("")), Add({Tap("")}, IpAddr("")),
    Add({Up("")}, Route(""))>>

delete_host_net ==
  <<Cmd({Route("")}, {}, {}, {Route("")}), Cmd({Tap("")}, {}, {}, {Up(""), Route("")}),
    Cmd({Tap("")}, {}, {}, OfTap(""))>>

setup_subnet(i) ==
  <<Create(Tap(i)), Add({Tap(i)}, IpAddr(i)), Set({Tap(i)}, Up(i)),
    Create(Ns(i)), Create(Veth(i)), Set({Veth(i), Ns(i)}, VethNs(i)), Create(Br(i)),
    Add({VethNs(i)}, VethAddr(i)), Set({VethNs(i)}, VethUp(i)),
    Add({VethAddr(i), VethUp(i)}, Default(i)), Set({Ns(i)}, LoUp(i)),
    Set({Tap(i), Br(i)}, TapMaster(i)), Set({Veth(i), Br(i)}, VpeerMaster(i)),
    Set({Veth(i)}, VpeerUp(i)), Set({Br(i)}, BrUp(i))>>

setup_host_net_ns ==
  setup_subnet("0") \o setup_subnet("1") \o <<Cmd({}, {}, {Forward}, {})>>

(* Mutant: the namespace first, which takes its end of the pair with it.   *)
delete_subnet_NsFirst(i) ==
  <<Cmd({Ns(i)}, {}, {}, OfNs(i) \cup OfVeth(i)), Cmd({Tap(i)}, {}, {}, OfTap(i)),
    Cmd({Br(i)}, {}, {}, OfBr(i))>>

(* Mutant: the bridge is forgotten.                                        *)
delete_subnet_NoBridge(i) ==
  <<Cmd({Tap(i)}, {}, {}, OfTap(i)), Cmd({Veth(i)}, {}, {}, OfVeth(i)),
    Cmd({Ns(i)}, {}, {}, OfNs(i))>>

delete_subnet(i) ==
  <<Cmd({Tap(i)}, {}, {}, OfTap(i)), Cmd({Veth(i)}, {}, {}, OfVeth(i)),
    Cmd({Br(i)}, {}, {}, OfBr(i)), Cmd({Ns(i)}, {}, {}, OfNs(i))>>

delete_host_net_ns == delete_subnet("0") \o delete_subnet("1")

setup_client_net ==
  <<Add({}, IpAddr("eth0")), Set({}, Up("eth0")), Add({Up("eth0")}, Route("eth0"))>>

setup_client_net_ns ==
  <<Add({}, IpAddr("eth0")), Add({}, IpAddr("eth1")), Set({}, Up("eth0")), Set({}, Up("eth1")),
    Add({Up("eth0")}, Route("eth0")), Add({Up("eth1")}, Route("eth1")),
    Cmd({}, {}, {Forward}, {})>>

Commands ==
  [setup_host_net |-> setup_host_net, delete_host_net |-> delete_host_net,
   setup_host_net_ns |-> setup_host_net_ns, delete_host_net_ns |-> delete_host_net_ns,
   setup_client_net |-> setup_client_net, setup_client_net_ns |-> setup_client_net_ns]

Scripts ==
  [host |-> {"setup_host_net", "delete_host_net"},
   host_ns |-> {"setup_host_net_ns", "delete_host_net_ns"},
   guest |-> {"setup_client_net"}, guest_ns |-> {"setup_client_net_ns"}]

(* Mutant: the scripts lack set -e.                                        *)
StopsOnError_Never(s) == FALSE

StopsOnError(s) == s \notin {"setup_client_net", "setup_client_net_ns"}
Guests == {"guest", "guest_ns"}
Setup(m) == CHOOSE s \in Scripts[m] : s \notin {"delete_host_net", "delete_host_net_ns"}
-----------------------------------------------------------------------------
Works(c, facts) == c.needs \subseteq facts /\ c.clash \cap facts = {}

(* The kernel adds the route of a subnet itself, once a device has its     *)
(* address and is up.                                                      *)
Effect(c, facts) ==
  LET after == (facts \cup c.adds) \ c.dels
      Ready(fs) == {i \in {"", "0", "1", "eth0", "eth1"} : {IpAddr(i), Up(i)} \subseteq fs}
  IN  after \cup {Route(i) : i \in Ready(after) \ Ready(facts)}

NetInit ==
  /\ machine \in DOMAIN Scripts
  /\ net = {} /\ script = Setup(machine) /\ pc = 1 /\ status = "none" /\ breaks = 0
  /\ skb_zeroing \in IF machine \in Guests THEN {0, 1} ELSE {0}
  /\ current_value = [s \in Shell |-> -1] /\ stale = [s \in Shell |-> FALSE]

zvars == <<skb_zeroing, current_value, stale>>

Start(s) ==
  /\ status # "runs" /\ s \in Scripts[machine]
  /\ script' = s /\ pc' = 1 /\ status' = "runs"
  /\ UNCHANGED <<machine, net, breaks>> /\ UNCHANGED zvars

AtLast == pc = Len(Commands[script])
EndWith(result) == status' = result /\ UNCHANGED pc
Proceed == IF AtLast THEN EndWith("ok") ELSE pc' = pc + 1 /\ UNCHANGED status

(* What a failed command means for the script.                             *)
Fails ==
  /\ IF StopsOnError(script) \/ AtLast THEN EndWith("failed") ELSE Proceed
  /\ UNCHANGED net

Step ==
  /\ status = "runs"
  /\ LET c == Commands[script][pc] IN
     IF Works(c, net) THEN net' = Effect(c, net) /\ Proceed ELSE Fails
  /\ UNCHANGED <<machine, script, breaks>> /\ UNCHANGED zvars

Break ==
  /\ status = "runs" /\ breaks < MaxBreaks
  /\ breaks' = breaks + 1
  /\ Fails \/ (EndWith("failed") /\ UNCHANGED net)
  /\ UNCHANGED <<machine, script>> /\ UNCHANGED zvars

(* Mutant: the branches are swapped.                                       *)
Toggled_Swapped(v) == IF v = 1 THEN 1 ELSE 0

Toggled(v) == IF v = 1 THEN 0 ELSE 1

ReadZeroing(s) ==
  /\ machine \in Guests /\ current_value[s] = -1
  /\ current_value' = [current_value EXCEPT ![s] = skb_zeroing]
  /\ stale' = [stale EXCEPT ![s] = FALSE]
  /\ UNCHANGED <<machine, net, script, pc, status, breaks, skb_zeroing>>

WriteZeroing(s) ==
  /\ current_value[s] # -1
  /\ skb_zeroing' = Toggled(current_value[s])
  /\ current_value' = [current_value EXCEPT ![s] = -1]
  /\ stale' = [z \in Shell |-> z # s /\ current_value[z] # -1]
  /\ UNCHANGED <<machine, net, script, pc, status, breaks>>

NetNext ==
  \/ \E s \in DOMAIN Commands : Start(s)
  \/ Step \/ Break
  \/ \E s \in Shell : ReadZeroing(s) \/ WriteZeroing(s)

NetSpec == NetInit /\ [][NetNext]_netvars
-----------------------------------------------------------------------------
SetUp(s) == UNION {Commands[s][k].adds : k \in DOMAIN Commands[s]}
Facts == UNION {SetUp(s) : s \in DOMAIN Commands} \cup {Route("0"), Route("1")}

NetTypeOK ==
  /\ machine \in DOMAIN Scripts /\ net \subseteq Facts
  /\ script \in Scripts[machine] /\ pc \in 1..Len(Commands[script])
  /\ status \in {"none", "runs", "ok", "failed"} /\ breaks \in 0..MaxBreaks
  /\ skb_zeroing \in {0, 1} /\ current_value \in [Shell -> {-1, 0, 1}]
  /\ stale \in [Shell -> BOOLEAN]

Ended == status \in {"ok", "failed"}

(* Once a set-up script has come to its last command the network is        *)
(* complete, even where that command fails, as ip route add does; in the   *)
(* guest, where errors are passed over, provided nothing else went wrong.  *)
SetupComplete ==
  /\ Ended /\ script = Setup(machine) /\ pc = Len(Commands[script])
  /\ machine \in Guests => breaks = 0
  => SetUp(script) \ (IF status = "ok" THEN {} ELSE {Forward}) \subseteq net

(* The route that a script adds itself is always there already, unless a   *)
(* command before it failed: set -e makes setup_host_net.sh end there.     *)
RouteFromKernel ==
  [][Step /\ Commands[script][pc].clash \cap {Route(i) : i \in {"", "eth0", "eth1"}} # {}
       => net' = net \/ breaks > 0]_netvars

(* A deletion script that ends without an error leaves nothing behind but  *)
(* the forwarding rule, whatever happened before.                          *)
DeleteClean ==
  status = "ok" /\ script \in {"delete_host_net", "delete_host_net_ns"} => net \subseteq {Forward}

(* What a script makes of the network when nothing interrupts it.          *)
Outcome(s, facts) ==
  LET Do(r, c) == IF r.runs /\ Works(c, r.net) THEN [r EXCEPT !.net = Effect(c, r.net)]
                  ELSE [r EXCEPT !.runs = FALSE]
      Run[k \in 0..Len(Commands[s])] ==
        IF k = 0 THEN [net |-> facts, runs |-> TRUE] ELSE Do(Run[k - 1], Commands[s][k])
  IN  Run[Len(Commands[s])].net

Repairable(facts) ==
  LET After[n \in 0..MaxTries] ==
        IF n = 0 THEN {facts}
        ELSE LET before == After[n - 1]
             IN  before \cup {Outcome(s, f) : s \in Scripts[machine], f \in before}
  IN  \E f \in After[MaxTries] : SetUp(Setup(machine)) \subseteq f

Trapped ==
  \/ \E i \in {"0", "1"} : Ns(i) \in net /\ ~ ({Veth(i), Br(i)} \subseteq net)
  \/ machine = "host" /\ Tap("") \in net /\ Route("") \notin net

(* After any failures and interruptions, running the set-up and deletion   *)
(* scripts again and again restores the network, except exactly when a     *)
(* namespace is left without its pair or its bridge, or the single tap     *)
(* without its route: then neither script gets past what is left.          *)
RepairedUnlessTrapped ==
  status # "runs" /\ machine \notin Guests => (Repairable(net) <=> ~ Trapped)

(* A toggle changes the value, unless another one wrote between its read   *)
(* and its write.                                                          *)
TogglesInvert ==
  [][\A s \in Shell : WriteZeroing(s) /\ ~ stale[s] => skb_zeroing' # skb_zeroing]_netvars
=============================================================================
