------------------------------- MODULE MCPairing -------------------------------
(***************************************************************************)
(* PairingParser for TLC: pods with up to three interfaces and addresses,  *)
(* and the lines of a config map.                                          *)
(***************************************************************************)
EXTENDS PairingParser

Iface(network, interface, deviceType, info) ==
  [network |-> network, interface |-> interface, default |-> interface = "eth0",
   deviceType |-> deviceType, info |-> info]

Primary == Iface(<<"", "k8s">>, "eth0", "unknown", NoInfo)
Secondary(interface, deviceType, info) == Iface(<<"default", "test-net">>, interface, deviceType, info)
Vdpa(address) == [kind |-> "vdpa", address |-> address]
OtherInfo == [kind |-> "other", address |-> "none"]

\* A pod with one and with two attachments to test-net, one whose device is known,
\* one with a vDPA device and an unknown device that has a DeviceInfo.
PodAnnotations ==
  { <<Primary, Secondary("net1", "unknown", NoInfo)>>,
    <<Primary, Secondary("net1", "unknown", NoInfo), Secondary("net2", "unknown", NoInfo)>>,
    <<Primary, Secondary("net1", "unknown", Pci("0A")), Iface(<<"other", "test-net">>, "net2", "unknown", NoInfo)>>,
    <<Primary, Secondary("net1", "vdpa", Vdpa("0b")), Secondary("net2", "unknown", OtherInfo)>> }

PodEnvironments ==
  { Empty,
    [x |-> <<"0a">>],
    [x |-> <<"0b", "0c">>],
    [x |-> <<"0a">>, y |-> <<"0B", "0c">>] }

PodLinks ==
  { Empty,
    [lo |-> "loopback", eth0 |-> "ip0", net1 |-> "ip1"],
    [eth0 |-> "ip0", net1 |-> "none", net2 |-> "ip2"],
    [eth0 |-> "error", net1 |-> "ip1", net2 |-> "ip2"] }

Lower(s) ==
  CASE s = "0A" -> "0a" [] s = "0B" -> "0b" [] s = "Pod" -> "pod" [] OTHER -> s
FoldOf ==
  [s \in {"none", "0a", "0A", "0b", "0B", "0c", "Pod", "pod", "deployment", "daemonset", "service"} |->
     Lower(s)]

Src(type, ns, name, network, interface, ip) ==
  [type |-> type, ns |-> ns, name |-> name, net |-> network, interface |-> interface, ip |-> ip]

Texts ==
  [ primary    |-> Src("pod", "default", "web-1", "", "", ""),
    eth0       |-> Src("Pod", "default", "web-1", "", "eth0", "ip9"),
    network    |-> Src("pod", "default", "web-1", "test-net", "", ""),
    stranger   |-> Src("pod", "default", "web-1", "no-net", "net1", ""),
    ownAddress |-> Src("deployment", "default", "web", "", "net9", "ip9"),
    daemonset  |-> Src("daemonset", "default", "log", "", "", ""),
    otherPod   |-> Src("pod", "default", "web-2", "", "", ""),
    otherNs    |-> Src("pod", "prod", "web-1", "", "", ""),
    service    |-> Src("service", "default", "web-1", "", "", ""),
    garbled    |-> NotJson ]

Line(text, destination, profile) ==
  [text |-> text, fields |-> <<destination, profile, "scenario">>]

\* Sources with several destinations and profiles, and short lines of this pod and
\* of others.
SomeLines ==
  { Blank,
    Line("primary", "d1", "udp"), Line("primary", "d2", "udp"), Line("primary", "d1", "http"),
    Line("eth0", "d1", "udp"), Line("network", "d1", "udp"), Line("network", "d2", "udp"),
    Line("stranger", "d1", "udp"), Line("ownAddress", "d1", "udp"),
    Line("daemonset", "d1", "udp"), Line("otherPod", "d1", "udp"), Line("otherNs", "d1", "udp"),
    Line("service", "d1", "udp"),
    [text |-> "garbled", fields |-> <<>>],
    [text |-> "otherPod", fields |-> <<"d1">>],
    [text |-> "network", fields |-> <<"d1", "udp">>] }
===============================================================================
