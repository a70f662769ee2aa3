--------------------------- MODULE MCDescriptors ---------------------------
(***************************************************************************)
(* Two processes, with the numbers of their files before, among and after  *)
(* those bossd itself uses: a unix socket, a host bossd does not recognise *)
(* after a re-exec, and a port the kernel gives.                           *)
(***************************************************************************)
EXTENDS Descriptors

FileOf(p, key, addr) == [proc |-> p, key |-> key, addr |-> addr]

\* The numbers bossd itself has for its log and its sockets, in other orders; a
\* process has an address twice in either.
MCConfigs == {
  [backups |-> 2, files |-> <<FileOf("p", 5, "A"), FileOf("p", 6, "B"),
                              FileOf("q", 3, "A"), FileOf("q", 4, "A")>>],
  [backups |-> 1, files |-> <<FileOf("p", 5, "B"), FileOf("p", 6, "B"),
                              FileOf("q", 4, "file"), FileOf("q", 5, "D")>>]}
=============================================================================
