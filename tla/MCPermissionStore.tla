------------------------- MODULE MCPermissionStore -------------------------
(* The instance of PermissionStore for TLC. *)
EXTENDS PermissionStore, TLC

WritePath(path) == [tool |-> "write_file", kind |-> "path", arg |-> path]
Run(words) == [tool |-> "run", kind |-> "command", arg |-> words]
NoArg(tool) == [tool |-> tool, kind |-> "none", arg |-> <<>>]

MCCalls ==
  {WritePath(<<"/", "etc">>), WritePath(<<"/", "etc", "hosts">>),
   WritePath(<<"..", "notes">>), WritePath(<<"src", ".env">>),
   WritePath(<<"src", "main">>),
   NoArg("write_file"),
   Run(<<"git", "log">>), Run(<<"git", "push">>)}
MCFrontMatter ==
  <<[pattern |-> WritePath(<<"..", "notes">>), decision |-> "deny"]>>
MCEdits ==
  {<<>>, <<[pattern |-> Run(<<"git">>), decision |-> "allow"],
           [pattern |-> WritePath(<<"/">>), decision |-> "deny"]>>}
MCEmptyFile == {<<>>}
MCRoot == <<"/", "home", "me", "project">>
MCStems == {<<".ssh">>, <<".config", "gh">>}

Symmetry == Permutations(Session)
=============================================================================
