----------------------------- MODULE MCWlanConn -----------------------------
(* Two users for TLC: one who connects and disconnects, one who gives every   *)
(* command.  The first state picks the user.                                  *)
EXTENDS WlanConn

VARIABLE user

Connects == {"connect", "disconnect"}

\* The user who gives every command has one network less to start with.
Any == INSTANCE WlanConn WITH NNets <- NNets - 1

MCInit ==
  \/ user = "connects" /\ Init
  \/ user = "any" /\ Any!Init

MCNext ==
  /\ user' = user
  /\ \/ /\ user = "connects"
        /\ \/ Command \/ EventThread \/ Driver
           \/ \E c \in Connects : used.cmds < MaxCmds - 1 /\ CmdTyped(c)
     \/ user = "any" /\ Any!Next

MCSpec ==
  /\ MCInit /\ [][MCNext]_<<vars, user>>
  /\ WF_vars(user = "connects" /\ Command) /\ WF_vars(user = "connects" /\ EventThread)
  /\ WF_vars(user = "any" /\ Any!Command) /\ WF_vars(user = "any" /\ Any!EventThread)

\* The station bit tells the truth once things are quiet, as long as no role command
\* clears bits of its own (StatusTrue, network_terminal.c:477).
MCStatusTrue == user = "connects" => StatusTrue
=============================================================================
