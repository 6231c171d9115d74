----------------------------- MODULE MCInstaller -----------------------------
(***************************************************************************)
(* A roomy and a small stick, a fixed disk and a DVD drive.                *)
(***************************************************************************)
EXTENDS Installer, TLC

CONSTANTS u1, u2, hd, dvd

MCDevices == {u1, u2, hd, dvd}
MCSize    == u1 :> 8192 @@ u2 :> 2048 @@ hd :> 65536 @@ dvd :> 4096

\* Not a number, too small, fine for one stick and too much for the other.
MCEspInputs  == {<<>>, <<20>>, <<4000>>}
MCRootInputs == {<<>>, <<0>>, <<1>>, <<5>>}

MCSpecs ==
  {[esp |-> <<512>>, espGiven |-> FALSE, root |-> <<0>>, rootGiven |-> FALSE, network |-> FALSE],
   [esp |-> <<100>>, espGiven |-> TRUE, root |-> <<5>>, rootGiven |-> TRUE, network |-> TRUE]}

Line(name, members) == [name |-> name, members |-> members]

\* The skeleton as it ships, one without the placeholder, one with a home in
\* the way.
MCRoots ==
  {[passwd |-> <<"root", "writeonce", "dbus">>, shadow |-> <<"root", "writeonce">>,
    group |-> <<Line("wheel", {"writeonce"}), Line("writeonce", {}), Line("audio", {"dbus"})>>,
    homes |-> {"writeonce"}, enabled |-> {}, target |-> "console"],
   [passwd |-> <<"root">>, shadow |-> <<"root">>, group |-> <<Line("wheel", {})>>,
    homes |-> {}, enabled |-> {}, target |-> "console"],
   [passwd |-> <<"writeonce">>, shadow |-> <<>>, group |-> <<Line("audio", {"writeonce"})>>,
    homes |-> {"writeonce", "alice"}, enabled |-> {}, target |-> "console"]}

==============================================================================
