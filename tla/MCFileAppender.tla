--------------------------- MODULE MCFileAppender ---------------------------
(* Two environments for FileAppender: one in which every call may fail and *)
(* the file may be moved away, and one without faults that goes on for     *)
(* several turns of the quota ring after a start with old files.           *)
EXTENDS FileAppender

TwoSetups ==
    { [faults |-> {"open", "write", "rename", "move"}, quota |-> 2, old |-> 1, prints |-> 3,
       inodes |-> 6],
      [faults |-> {}, quota |-> 3, old |-> 4, prints |-> 5,
       inodes |-> 10] }
=============================================================================
