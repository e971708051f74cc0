----------------------------- MODULE MCConsole -----------------------------
(* Console.tla on a screen of 3 rows and 4 columns with a line buffer of 3   *)
(* bytes, one letter key and the space bar.  A typed line may wrap, scroll   *)
(* and overrun the buffer; commands print nothing, a short line, a line      *)
(* exactly as wide as the screen, or two wide ones.                          *)
EXTENDS Console

TwoKeys     == {"letter", "space"}
Plain       == [letter |-> "a", space |-> " "]
Shifted     == [letter |-> "A", space |-> " "]
OneLetter   == {"a"}
ShortPrompt == <<">">>
Question    == <<"?", "?", "?">>
OneWelcome  == << <<"w">> >>
FewCommands == (<<"a">> :> "echo") @@ (<<"A">> :> "clear")
                 @@ (<<"a", "a">> :> "print") @@ (<<"A", "A">> :> "fault")
FewOutputs  == { << >>, << <<"o", "o", "o", "o">> >>,
                 << <<"o", "o", "o", "o", "o">>, <<"o">> >> }
=============================================================================
