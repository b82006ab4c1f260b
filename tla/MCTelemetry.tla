----------------------------- MODULE MCTelemetry -----------------------------
EXTENDS Telemetry
CONSTANTS h1, h2, f1, f2
TwoHosts == {h1, h2}
TwoFutures == {f1, f2}
\* The root runs on the endpoint's machine, and the call it makes on the other.
Apart == [f \in TwoFutures |-> IF f = f1 THEN h1 ELSE h2]
OnlySecond == {f2}
=============================================================================
