----------------------------- MODULE MCAdmission -----------------------------
(* A Gateway with four configurations, two  Device Profiles and the calls that tell *)
(* the limits apart.                                                                *)
EXTENDS Admission, TLC

Poller(i, name, address) == [index |-> i, name |-> name, address |-> address]
MCPollers == {Poller(0, "meter", 1), Poller(1, "meter", 1), Poller(0, "pump", 2),
              Poller(1, "pump", 2)}

\* Two Buses with sensors of their own; the tables renumbered and the sensors shared; one
\* Bus left, with a single poller; no scanner any more.
MCFirmwares ==
  LET Own(r, l) == [result |-> r, lease |-> l]
      Two(a, b, s, t, unique) ==
        [bridge |-> "v2", tables |-> ("a" :> a @@ "b" :> b),
         sensors |-> ("a" :> s @@ "b" :> t), unique |-> unique]
      meterFirst == {Poller(0, "meter", 1)}
      pumpFirst == {Poller(0, "pump", 2), Poller(1, "meter", 1)}
  IN  { Two(meterFirst, {}, Own("ra", "la"), Own("rb", "lb"), {"ra", "la", "rb", "lb"}),
        Two(pumpFirst, {}, Own("ra", "la"), Own("ra", "lb"), {"ra", "la", "lb"}),
        [bridge |-> "v2", tables |-> ("a" :> {Poller(0, "meter", 1)}),
         sensors |-> ("a" :> Own("ra", "none")), unique |-> {"ra"}],
        [bridge |-> "none", tables |-> <<>>, sensors |-> <<>>, unique |-> {}] }

MCDocuments ==
  LET none == [f \in Fields |-> Unset]
  IN  { [builtin |-> FALSE, codes |-> <<4>>, allowed |-> <<7, 8>>,
         defaults |-> [none EXCEPT !.start = 1, !.end = 2, !.register = 7, !.count = 2]],
        [builtin |-> FALSE, codes |-> <<3>>, allowed |-> <<7>>,
         defaults |-> [none EXCEPT !.register = 7, !.count = 2]] }

\* Every call leaves out what it does not test.
MCCalls ==
  LET Call(bus, pause, pollers) ==
        [bus |-> bus, pause |-> pause, pollers |-> pollers, confirmed |-> FALSE]
          @@ [f \in Fields |-> Unset]
      Over(c, change) == [f \in DOMAIN c |-> IF f \in DOMAIN change THEN change[f] ELSE c[f]]
      Long == [start |-> 1, end |-> 2, probe |-> 3, delay |-> 3000, timeout |-> 2000]
      Fitting == [start |-> 1, end |-> 2, probe |-> 3, delay |-> 700]
  IN  { Over(Call("a", TRUE, Unset), Long), Over(Call("a", TRUE, Unset), Fitting),
        Over(Call("b", FALSE, Unset), [start |-> 247, end |-> 247, probe |-> 3, timeout |-> 2000]),
        Over(Call("a", TRUE, Unset), [start |-> 1, end |-> 2, count |-> 5]),
        Over(Call("a", FALSE, Unset), [start |-> 1, end |-> 247]),
        Over(Call("a", FALSE, Unset), [start |-> 1, end |-> 1, register |-> 65535, count |-> 2]),
        Call(AnyBus, Unset, Unset), Call(AnyBus, TRUE, {0, 1}) }

MCPayloads ==
  LET Of(outcome, values, exception, latency) ==
        [outcome |-> outcome, values |-> values, exception |-> exception, latency |-> latency]
  IN  { Of("responded", <<65535>>, Unset, 0), Of("responded", <<1, 2>>, Unset, 60000),
        Of("responded", <<65536>>, Unset, 1), Of("modbus_exception", Unset, 255, 1),
        Of("modbus_exception", Unset, 0, 1), Of("timeout", <<1>>, 3, 1) }
=============================================================================
