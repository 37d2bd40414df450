----------------------------- MODULE MCBuilding -----------------------------
(***************************************************************************)
(* Sources two of which define one topic, so that their order decides what *)
(* is built, one without topics and one that does not parse; commands that *)
(* agree, that disagree about one file, that read one source twice, and    *)
(* that are refused at each point where they may be.                       *)
(***************************************************************************)
EXTENDS Building

MCTopic == {"a1", "a2", "b2"}
MCName == [t \in MCTopic |-> IF t = "b2" THEN "B" ELSE "A"]
MCSource == {"one.hlp", "two.hlp", "none.hlp", "bad.hlp"}
MCParsed ==
  [s \in MCSource |->
    CASE s = "one.hlp"  -> <<"a1">>
      [] s = "two.hlp"  -> <<"a2", "b2">>
      [] s = "none.hlp" -> <<>>
      [] s = "bad.hlp"  -> Unreadable]
MCOld == <<"b2">>

Call(via, browsing, inputs, output) ==
  [via |-> via, browsing |-> browsing, inputs |-> inputs, output |-> output]

MCCommand ==
  {Call("hlp", FALSE, <<"one.hlp", "two.hlp">>, "x.hlib"),
   Call("C", FALSE, <<"one.hlp", "none.hlp", "two.hlp">>, "x.hlib"),
   Call("Python", FALSE, <<"two.hlp", "one.hlp">>, "x.hlib"),
   Call("hlp", FALSE, <<"one.hlp", "one.hlp">>, "y.hlib"),
   Call("hlp", FALSE, <<"one.hlp", "bad.hlp">>, "x.hlib"),
   Call("hlp", TRUE, <<"one.hlp">>, "x.hlib"),
   Call("C", FALSE, <<>>, "x.hlib"),
   Call("Python", FALSE, <<>>, "x.hlib")}
=============================================================================
