---------------------------- MODULE MC_TestHarness ----------------------------
(* The host of SimpleFrame with systems that spawn, and the test suites.     *)
EXTENDS TestHarness

CONSTANTS A, B, T

HostWriter(m) == [Writes({A}) EXCEPT !.spawns = {m}]
HostMix ==
  {HostWriter({A}), HostWriter({B}), Reads({A}),
   [Deletes({A}) EXCEPT !.spawns = {{}}]}
HostMixes == {HostMix}

AllComponents == {A, B, T} \union TestComponents

\* Every declaration a suite registers; the free host keeps to its mix.
Declarations ==
  LET declarations ==
        FlattenSeq([t \in DOMAIN Suites |->
                      [k \in DOMAIN Suites[t].systems |->
                         Suites[t].systems[k].declares]])
          \o SetToSeq(HostMix)
  IN  {declarations[k] : k \in DOMAIN declarations}

Declared == Declarations

FewDatabases ==
  <<<<>>,
    <<{"C07", "C00"}, {"C01", "C02"}>>,
    <<{"C07", "C03", "C05"}, {"C07"}>>>>

=============================================================================
