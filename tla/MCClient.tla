------------------------------ MODULE MCClient ------------------------------
(* A flash that is captured, and one that is only waited for; a monitor on  *)
(* a terminal, one that waits for a line, and one with piped input, where   *)
(* the exit byte is a key like others; an erase; a download.                *)
EXTENDS Client

Command(kind, json, tty, terminal, interactive, wait, capture, input, output) ==
  [kind |-> kind, json |-> json, tty |-> tty, terminal |-> terminal,
   interactive |-> interactive, wait |-> wait, timed |-> wait, capture |-> capture,
   input |-> input, output |-> output]

MCCommands ==
  {Command("flash", TRUE, FALSE, FALSE, FALSE, FALSE, TRUE, <<>>, <<"x", "newline">>),
   Command("flash", FALSE, TRUE, FALSE, FALSE, FALSE, FALSE, <<>>, <<>>),
   Command("plain", FALSE, FALSE, FALSE, FALSE, TRUE, TRUE, <<>>, <<"x", "y", "r", "newline">>),
   Command("plain", FALSE, FALSE, FALSE, FALSE, FALSE, FALSE, <<>>, <<>>),
   Command("read", FALSE, FALSE, FALSE, FALSE, FALSE, FALSE, <<>>, <<>>),
   Command("plain", TRUE, FALSE, TRUE, TRUE, FALSE, TRUE, <<"k", "exit", "m">>, <<>>),
   Command("plain", FALSE, FALSE, FALSE, TRUE, FALSE, TRUE, <<"k", "exit">>, <<>>)}

MCPattern == <<"r">>
MCReads == {1, 2}

Progress(action, percent) == [action |-> action, offset |-> 0, percent |-> percent]
MCScript ==
  <<Progress("segment_started", 0), Progress("segment_progress", 5),
    Progress("segment_progress", 100), Progress("verifying", 100),
    Progress("segment_finished", 100)>>
=============================================================================
