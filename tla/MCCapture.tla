----------------------------- MODULE MCCapture ------------------------------
(* Small instances of Capture. *)
EXTENDS Capture, TLC

CONSTANTS t1, t2, i1, i2, monitor, usb

None == [i \in {} |-> NewCap]
Running == i1 :> [NewCap EXCEPT !.on = TRUE]
Captures == {None, Running, i2 :> NewCap}
Firmwares == {{monitor}, {usb}}

Does(op, i) == [AnyCall EXCEPT !.op = op, !.iface = i]
Limited(op, s, p) == [Does(op, i1) EXCEPT !.seconds = s, !.packets = p]

Captains == {Limited("summary", 1, 0), Limited("start", 1, 1), Limited("start", 0, 1)}
            \cup {Does(op, i1) : op \in {"stop", "delete", "download", "status", "list"}}
\* One client captures; another one captures on the same interface, looks, and
\* changes the firmware.
TwoClients ==
  [t \in Task |-> IF t = t1 THEN Captains
                  ELSE {Does("start", i1), Does("delete", i1),
                        Does("status", i1), Does("list", i2), Does("ensure", i1),
                        Does("components", i1),
                        [Does("remove", i1) EXCEPT !.commit = TRUE]} \cup
                       {[Does("install", i1) EXCEPT !.comp = usb]}]
=============================================================================
