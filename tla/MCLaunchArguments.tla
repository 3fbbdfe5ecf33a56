------------------------- MODULE MCLaunchArguments -------------------------
EXTENDS LaunchArguments, SequencesExt

CONSTANTS MaxArguments, MaxText

Common == {Word({}), Word({"other"}), Word({"server"}), Word({"tool"}), Option("servers"),
           Attached("servers", {"other"}), Option("exclude"), Option("model"), Option("bare")}
Interactive == Common \cup
  {Boundary, Option("name"), Attached("name", {"other"}), Option("startup"), Option("config"),
   Attached("config", {"caller"}), Word({"caller"})}
Lane == Common \cup {Option("safe"), Option("extension"), Option("prompt"), Attached("exclude", {"other"}), Boundary}

\* Lists that only the shorter instances meet.
Rare == {Word({"subcommand"}), Word({"reserved", "caller"}), Option("group"), Option("prompt"),
         Option("input"), Attached("bare", {"true"}), Attached("group", {"other"}), Option("allow"),
         Attached("allow", {"tool"}), Option("safe"), Option("promptInteractive")}

FileArgs == <<Option("config"), Word({"caller", "file"})>>

Calling(m, tokens, n, environments) ==
  [mode : {m}, args : SeqOf(tokens, n), environment : environments]

MCCalls == Calling("interactive", Interactive, MaxArguments, {{}})
           \cup Calling("interactive", Interactive \cup Rare, MaxArguments - 1, {{}})
           \cup Calling("interactive", Interactive, MaxArguments - 2, {{"bare"}, {"opentui"}})
           \cup Calling("lane", Lane, MaxArguments, {{}})
           \cup Calling("lane", Lane, MaxArguments - 1, {{"bare"}, {"opentui"}})
           \cup {[mode |-> "interactive", args |-> FileArgs, environment |-> {}]}
MCFiles == SeqOf({"\"", "\\", "/", "*", "\n", "\r", "x"}, MaxText)

=============================================================================
