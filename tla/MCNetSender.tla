---------------------------- MODULE MCNetSender ----------------------------
(* Programs for NetSender: two appenders whose entries share a batch, and  *)
(* one appender whose queue is full after a single entry.                  *)
EXTENDS NetSender

TwoSetups == {[apps |-> <<2, 1>>, qsize |-> 2], [apps |-> <<1>>, qsize |-> 1]}

TwoAppenders == {[apps |-> <<1, 2>>, qsize |-> 2]}

OneAppender == {[apps |-> <<1>>, qsize |-> 2]}
=============================================================================
