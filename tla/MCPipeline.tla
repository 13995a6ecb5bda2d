----------------------------- MODULE MCPipeline -----------------------------
(* Instances of Pipeline for TLC; the bounds are discussed in README.md.   *)
EXTENDS Pipeline

CONSTANTS hi, en, ta    \* hi-IN, en-IN, ta-IN

MCLangs   == {hi, en, ta}
MCEnglish == {en}
MCConfig0 == [source |-> hi, target |-> en, size |-> "1"]

\* By how many samples they are; "all" is no number.
MCSizes   == {"1", "2", "-1", "all"}
MCSamples == [s \in MCSizes |-> CASE s = "1" -> 1 [] s = "2" -> 2 [] s = "-1" -> -1
                                  [] s = "all" -> None]

\* In bytes: one sample, one and a half, and two.
MCPayloads    == {2, 3, 4}
MCFewPayloads == {2, 3}

\* sendSessionInit, and updateLanguagePair, which leaves the size out.
MCMessages ==
    {[source |-> ta, target |-> hi, size |-> "2"],
     [source |-> hi, target |-> en, size |-> "1"],
     [source |-> hi, target |-> ta, size |-> None]}

\* No frontend sends these, but update_config takes them.
MCOddMessages ==
    {[source |-> None, target |-> None, size |-> "-1"],
     [source |-> None, target |-> None, size |-> "all"]}

MCMixedMessages == {m \in MCMessages : m.size # "1"} \cup MCOddMessages
=============================================================================
