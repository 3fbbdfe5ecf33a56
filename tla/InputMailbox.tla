---------------------------- MODULE InputMailbox ----------------------------
(***************************************************************************)
(* What an interactive session's helper promises the daemon of the         *)
(* messages it delivers: every message becomes at most one line native     *)
(* reads, a "written" receipt is only given for a line that is there, a    *)
(* rejection only for one that never will be, and lines stay where they    *)
(* are. An uncertain or lost receipt promises nothing: the line of a       *)
(* failed append may still appear, ended by the record after it.           *)
(***************************************************************************)
EXTENDS Integers, Sequences, SequencesExt

CONSTANT Deliveries

VARIABLES lines,    \* the messages native reads, in order
          answer    \* the receipt of each message

mailVars == <<lines, answer>>

MailInit == lines = <<>> /\ answer = [d \in Deliveries |-> "none"]

\* Lines are added at the end, by an append that may also end the unfinished
\* line before its own. No message gets a second line, nor one against its
\* receipt.
Extend ==
  /\ UNCHANGED answer /\ lines' # lines
  /\ IsStrictPrefix(lines, lines') /\ Len(lines') <= Len(lines) + 2
  /\ IsInjective(lines')
  /\ \A i \in Len(lines) + 1 .. Len(lines') :
       answer[lines'[i]] \notin {"written", "rejected"}

Reply(d, receipt) ==
  /\ answer[d] = "none"
  /\ answer' = [answer EXCEPT ![d] = receipt]
  /\ receipt = "written" => d \in Range(lines)
  /\ receipt = "rejected" => d \notin Range(lines)
  /\ UNCHANGED lines

MailNext ==
  \/ Extend
  \/ /\ answer' # answer
     /\ \E d \in Deliveries, receipt \in {"written", "uncertain", "rejected", "lost"} :
          Reply(d, receipt)

MailSpec == MailInit /\ [][MailNext]_mailVars
=============================================================================
