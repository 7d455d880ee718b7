----------------------------- MODULE MCPlaybook -----------------------------
(* Lines of a script for TLC to run Playbook on. *)
EXTENDS Playbook

Text0(exec, opens, ends) ==
  [dir |-> Nil, words |-> <<>>, exec |-> exec, opens |-> opens, ends |-> ends,
   rare |-> FALSE]
Dir(dir, words) ==
  [dir |-> dir, words |-> words, exec |-> FALSE, opens |-> <<>>, ends |-> Nil,
   rare |-> FALSE]
To(t) == <<W("->"), W("/etc/app"), t>>
Copy(rest) == Dir("copy", <<W("text")>> \o rest)

Common ==
  {Text0(TRUE, <<>>, Nil), Text0(FALSE, <<>>, Nil), Text0(TRUE, <<"EOF">>, Nil),
   Text0(TRUE, <<>>, "EOF"),
   Dir("local", <<>>), Dir("remote", <<W("web")>>), Dir("remote", <<At("db")>>),
   Dir("name", <<W("text")>>), Dir("only_if", <<W("text")>>),
   Dir("timeout", <<W("9")>>), Dir("env", <<W("KEY")>>),
   Dir("export", <<W("VER")>>), Copy(To(At("web"))),
   Dir("assert", <<W("app")>>), Dir("assert_port", <<W("80"), At("db")>>)}

Unit == W("app")
T == At("web")
RareLines ==
  {Text0(TRUE, <<"EOF", "END">>, Nil), Text0(TRUE, <<>>, "END"),
   Dir("server", <<W("web"), W("deploy@h1")>>), Dir("server", <<W("web")>>),
   Dir("group", <<W("all"), List(<<"web">>)>>), Dir("group", <<W("web"), List(<<"web">>)>>),
   Dir("env", <<>>), Dir("secrets", <<W("text"), Flag("--identity"), W("text")>>),
   Dir("secrets", <<W("text"), W("text")>>), Dir("workdir", <<Flag("--prefix"), W("web")>>),
   Dir("remote", <<>>), Dir("timeout", <<W("0")>>), Dir("timeout", <<W("5")>>),
   Dir("export", <<List(<<"VER", "KEY">>), Flag("--public")>>),
   Dir("export", <<W("text")>>), Dir("deploy", <<>>),
   Copy(To(T) \o <<Flag("--delete")>>), Copy(To(T) \o <<Flag("--exclude"), W("text")>>),
   Copy(To(T) \o <<FlagWith("--delete", "1")>>), Copy(<<W("->"), T>>), Copy(<<T>>),
   Copy(<<W("->"), W("/etc/app"), At("")>>),
   Dir("assert", <<Unit, T, W("failed")>>), Dir("assert", <<Unit, T, At("db")>>),
   Dir("assert", <<Unit, W("text")>>),
   Dir("assert_health", <<W("http://h"), T, Flag("--expect"), List(<<"200", "2xx">>)>>),
   Dir("assert_health", <<W("http://h"), FlagWith("--expect", "200")>>),
   Dir("assert_port", <<W("80"), Flag("--udp")>>), Dir("assert_port", <<W("0"), T>>),
   Dir("assert_port_free", <<List(<<"80", "443">>), T>>),
   Dir("assert_port_free", <<W("80"), Flag("--udp"), T>>),
   Dir("assert_rendered", <<W("/etc/app"), T>>), Dir("assert_rendered", <<W("text"), T>>),
   Dir("assert_enabled", <<Unit, W("masked"), T>>), Dir("assert_enabled", <<Unit, T>>),
   Dir("assert_no_leak", <<Unit, T, Flag("--lines"), W("5")>>),
   Dir("assert_no_leak", <<Unit, Flag("--lines")>>),
   Dir("assert_digest", <<W("/etc/app"), T, Flag("--sha256"), W("sha")>>),
   Dir("assert_digest", <<W("text"), T>>),
   Dir("assert_credstore", <<Unit, T, Flag("--unknown")>>), Dir("assert_credstore", <<>>),
   Dir("wait_active", <<Unit, T, Flag("--timeout"), W("5")>>), Dir("wait_active", <<Unit>>),
   Dir("reload", <<Unit, T, Flag("--signal"), W("SIGUSR1"), Flag("--wait")>>),
   Dir("reload", <<Unit, T, Flag("--signal"), Flag("--wait")>>),
   Dir("service", <<Unit, T, Flag("--restart"), Flag("--wait")>>),
   Dir("service", <<Unit, T, Flag("--restrat")>>),
   Dir("install", <<W("text"), W("->"), W("/etc/app"), T, Flag("--mode"), W("0644")>>),
   Dir("install", <<W("text"), W("->"), W("text"), T>>),
   Dir("backup", <<W("/etc/app"), W("/var/backups"), T, Flag("--keep"), W("5")>>),
   Dir("backup", <<W("/etc/app"), T, Flag("--keep"), W("0")>>),
   Dir("credstore", <<Unit, T, Flag("--require"), W("KEY")>>), Dir("credstore", <<Unit>>),
   Dir("helper", <<>>), Dir("helper", <<T, Flag("--install-path"), W("text")>>),
   Dir("unit_inventory", <<Flag("--unknown")>>), Dir("unit_inventory", <<At("")>>),
   Dir("release", <<W("acme/app"), T, Flag("--installed-cmd"), W("text"),
                    Flag("--asset"), W("text"), Flag("--to"), W("/etc/app")>>),
   Dir("release", <<W("acme/app"), T, Flag("--to"), W("/etc/app")>>),
   Dir("build", <<W("text"), T, FlagWith("--ref", "1"), Flag("--build"), W("text"),
                  Flag("--artifacts"), W("app"), Flag("--install-dirs"), W("/etc/app")>>),
   Dir("build", <<W("text"), T, Flag("--ref")>>),
   Dir("toolchain", <<List(<<"os", "cargo">>), T>>), Dir("toolchain", <<W("text"), T>>),
   Dir("image", <<W("text"), T, Flag("--prune")>>), Dir("image", <<T>>)}

MCLines == Common \union {[l EXCEPT !.rare = TRUE] : l \in RareLines}
=============================================================================
