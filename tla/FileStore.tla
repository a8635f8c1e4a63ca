------------------------------ MODULE FileStore ------------------------------
(***************************************************************************)
(* What the file operations of filesystem.h promise a user of the CLI: a   *)
(* map from names to file contents in which every command touches the one  *)
(* file it names, and only formatting touches more.  Mounting, unmounting  *)
(* and losing the process between two commands leave the map alone.        *)
(***************************************************************************)
CONSTANTS Names,     \* file names
          Contents,  \* what write_file can put into a file
          Empty,     \* what create_file puts into it
          NoFile     \* the value of a name that is not in the directory

VARIABLE files

TypeOK == files \in [Names -> Contents \cup {Empty, NoFile}]

Init == files = [n \in Names |-> NoFile]

Create(n)   == files[n] = NoFile /\ files' = [files EXCEPT ![n] = Empty]
Write(n, c) == files[n] # NoFile /\ files' = [files EXCEPT ![n] = c]
Delete(n)   == files[n] # NoFile /\ files' = [files EXCEPT ![n] = NoFile]
Wipe        == files' = [n \in Names |-> NoFile]

Next == \/ \E n \in Names : Create(n) \/ Delete(n)
        \/ \E n \in Names, c \in Contents : Write(n, c)
        \/ Wipe

Spec == Init /\ [][Next]_files

=============================================================================
