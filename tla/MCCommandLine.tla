----------------------------- MODULE MCCommandLine -----------------------------
(* Small instance of CommandLine: every list of up to three of eleven tokens, *)
(* and some longer ones, then a second command of a few.                      *)
EXTENDS CommandLine

MCGroup == {"dns", "mtu"}
MCConfig(dns, mtu, provider) ==
    [set |-> [g \in MCGroup |-> IF g = "dns" THEN dns ELSE mtu], provider |-> provider]
MCConfigs == {MCConfig("on", "off", "auto"), MCConfig("off", "1280", "google")}

MCNumber == [w \in {"0", "1", "1279", "1280", "9000", "9001"} |->
    CASE w = "0" -> 0 [] w = "1" -> 1 [] w = "1279" -> 1279
      [] w = "1280" -> 1280 [] w = "9000" -> 9000 [] w = "9001" -> 9001]

MCTokens ==
    {Flag(f) : f \in {"apply", "status", "plan", "help", "mtu", "profile"}} \cup
    {Assign("dns", "on"), Assign("dns", "no")} \cup
    {Word(w) : w \in {"1280", "apply", "lan"}}
MCShort == UNION {[1..n -> MCTokens] : n \in 0..3}
MCCommands ==
    {<<Flag(f)>> : f \in Action \cup {"version"}} \cup
    {<<Flag("profile"), Word("list")>>, <<Flag("profile"), Word("delete"), Word("lan")>>}
MCOver ==
    {<<Assign("mtu", w), Flag(f)>> : w \in DOMAIN MCNumber, f \in {"apply", "status", "plan"}} \cup
    {<<Assign("mtu", "9000"), Flag("profile"), Word(o), Word("lan")>> : o \in {"save", "apply"}} \cup
    {<<Flag("profile"), Word("save"), Word("lan"), Assign("mtu", "off")>>}
MCLines == <<MCShort \cup MCCommands \cup MCOver, MCCommands \cup MCOver>>
=============================================================================
