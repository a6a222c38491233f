---------------------------- MODULE RunnerOptions ----------------------------
(***************************************************************************)
(* The options on their way from a command line to the vmnet interface.    *)
(* vmnet-run parses and checks them, builds the argument vector of the     *)
(* helper, and the helper parses and checks that vector (parse_options and *)
(* build_helper_argv in programs/run.c, parse_options in                   *)
(* programs/options.c).  The script `run` has options of its own, checks   *)
(* them, and starts the helper or vmnet-run (run, testing/validate.py,     *)
(* testing/helper.py, testing/vm.py).                                      *)
(*                                                                         *)
(* An option is unset, "set", "good" or "bad" (one the helper's parser of  *)
(* that option rejects), or names an operation mode.                       *)
(***************************************************************************)
EXTENDS Integers, Sequences, FiniteSets, SequencesExt

VARIABLES
    pc,      \* "script" in `run`; "parse", "check", "build" in vmnet-run, then
             \* "helper_parse", "helper_check", "ready" in the helper; or who exited
    args,    \* what `run` was given; its connection is "none" when a user
             \* starts vmnet-run
    runner,  \* options in vmnet-run
    argv,    \* helper_argv
    optind,  \* the next element of argv that the helper looks at
    helper   \* options in the helper

vars == <<pc, args, runner, argv, optind, helper>>

unset == "unset"

Flags == {"--enable-tso", "--enable-checksum-offload", "--enable-isolation",
          "--verbose"}
Addresses == {"--start-address", "--end-address", "--subnet-mask"}
Checked == Addresses \cup {"--interface-id", "--stats-interval"}
Names == {"--shared-interface", "--network"}
Options == Flags \cup Checked \cup Names \cup {"--operation-mode"}

Modes == {"shared", "host", "bridged"}

\* What can follow an option on a command line.
Argument(o) ==
    CASE o \in Flags -> {"set"}
      [] o \in Names -> {"good"}
      [] o \in Checked -> {"good", "bad"}
      [] o = "--operation-mode" -> Modes \cup {"bad"}

Nothing == [o \in Options \cup {"--fd", "--socket"} |-> unset]

\* What `run` was given, after argparse, which looks at the form of each value:
\* the shared interface is the first one unless the user names another, and an
\* interval is any integer.  The socket of a VM with a long name has a path that does
\* not fit an address.
ScriptArguments ==
    [connection : {"--fd", "--socket", "runner"},
     vm_name : {"short", "long"},
     operation_mode : {unset} \cup Modes,
     start_address : {unset, "good"}, end_address : {unset, "good"},
     subnet_mask : {unset, "good"}, ip_address : {unset, "good"},
     shared_interface : {"good"}, network_name : {unset, "good"},
     enable_isolation : {unset, "set"}, enable_offloading : {unset, "set"},
     stats_interval : {unset, "zero", "good", "bad"}, verbose : {unset, "set"}]

NoScript ==
    [connection |-> "none", vm_name |-> unset, operation_mode |-> unset, start_address |-> unset,
     end_address |-> unset, subnet_mask |-> unset, ip_address |-> unset,
     shared_interface |-> unset, network_name |-> unset,
     enable_isolation |-> unset, enable_offloading |-> unset,
     stats_interval |-> unset, verbose |-> unset]

Init ==
    /\ \/ pc = "parse" /\ args = NoScript
       \/ pc = "script" /\ args \in ScriptArguments
    /\ runner = [o \in Options |-> unset]
    /\ argv = <<>> /\ optind = 1
    /\ helper = Nothing

------------------------------------------------------------------------------
\* Shared by the programs.

\* The interval is not looked at, only passed on.
RunnerRejects(o, value) == value = "bad" /\ o # "--stats-interval"

\* By the major version of macOS, in vmnet-run and in testing/helper.py.
requires_root(major) == major < 26

\* What is appended for one option.
Appended(opts, o) ==
    IF opts[o] = unset THEN <<>>
    ELSE IF o \in Flags THEN <<o>>
    ELSE <<o, opts[o]>>

\* The vector that starts the helper, with or without sudo in front.
Starts(connection, opts, order) ==
    \E major \in {15, 26} :
        LET close == IF connection = "--fd" THEN <<"--close-from">> ELSE <<>>
            sudo == IF requires_root(major)
                    THEN <<"sudo", "--non-interactive">> \o close
                    ELSE <<>>
        IN  /\ argv' = sudo \o <<"helper_path", connection>>
                        \o FlattenSeq([k \in DOMAIN order |-> Appended(opts, order[k])])
            /\ optind' = Len(sudo) + 2

------------------------------------------------------------------------------
\* run: the checks of testing/validate.py.

DhcpOptions == {args.start_address, args.end_address, args.subnet_mask}

\* --network, and --ip-address without a network of its own.
NetworkOptionsRejected ==
    \/ /\ args.network_name # unset
       /\ DhcpOptions \cup {args.operation_mode, args.ip_address} # {unset}
    \/ args.ip_address # unset /\ unset \in DhcpOptions

\* Mutant: the addresses are checked only in a mode that the user names.
MutantOperationModeRejected ==
    IF args.operation_mode = "bridged"
    THEN args.enable_isolation # unset
    ELSE args.operation_mode # unset /\ Cardinality(DhcpOptions) > 1

\* All addresses or none, and no isolation of a bridge.
OperationModeRejected ==
    IF args.operation_mode = "bridged"
    THEN args.enable_isolation # unset
    ELSE Cardinality(DhcpOptions) > 1

ScriptRejects ==
    /\ pc = "script"
    /\ \/ NetworkOptionsRejected
       \/ OperationModeRejected
       \/ unset \notin DhcpOptions  \* they may not be in one subnet
    /\ pc' = "script_exit"
    /\ UNCHANGED <<args, runner, argv, optind, helper>>

ScriptAccepts ==
    /\ pc = "script"
    /\ ~NetworkOptionsRejected /\ ~OperationModeRejected

\* What the classes Helper and VM pass on; an interval of 0 counts as none, and
\* only the helper gets an interface id.
ScriptGives(o) ==
    CASE o = "--interface-id" ->
            IF args.connection = "runner" \/ args.network_name # unset
            THEN unset ELSE "good"
      [] o \in {"--enable-tso", "--enable-checksum-offload"} -> args.enable_offloading
      [] o = "--stats-interval" ->
            IF args.stats_interval = "zero" THEN unset ELSE args.stats_interval
      [] o = "--operation-mode" -> args.operation_mode
      [] o = "--start-address" -> args.start_address
      [] o = "--end-address" -> args.end_address
      [] o = "--subnet-mask" -> args.subnet_mask
      [] o = "--enable-isolation" -> args.enable_isolation
      [] o = "--shared-interface" -> args.shared_interface
      [] o = "--network" -> args.network_name
      [] o = "--verbose" -> args.verbose

\* VM.runner_command.  vmnet-run parses each option once and finds nothing bad but
\* perhaps the interval, which it does not look at.
ScriptStartsRunner ==
    /\ ScriptAccepts /\ args.connection = "runner"
    /\ runner' = [o \in Options |-> ScriptGives(o)]
    /\ pc' = "check"
    /\ UNCHANGED <<args, argv, optind, helper>>

ScriptOrder == <<"--interface-id", "--network", "--operation-mode",
                 "--start-address", "--end-address", "--subnet-mask",
                 "--enable-isolation", "--shared-interface", "--enable-tso",
                 "--enable-checksum-offload", "--stats-interval", "--verbose">>

\* Helper._build_command: it joins an option and its argument, which getopt_long
\* takes apart.
ScriptStartsHelper ==
    /\ ScriptAccepts /\ args.connection # "runner"
    /\ Starts(args.connection, [o \in Options |-> ScriptGives(o)], ScriptOrder)
    /\ pc' = "helper_parse"
    /\ UNCHANGED <<args, runner, helper>>

------------------------------------------------------------------------------
\* vmnet-run: parse_options.

\* One turn of the getopt_long loop; an option given again replaces the first.
RunnerOption ==
    /\ pc = "parse"
    /\ \E o \in Options : \E value \in Argument(o) :
        \/ /\ ~RunnerRejects(o, value)
           /\ runner' = [runner EXCEPT ![o] = value]
           /\ UNCHANGED pc
        \/ /\ RunnerRejects(o, value)
           /\ pc' = "runner_exit"
           /\ UNCHANGED runner
    /\ UNCHANGED <<args, argv, optind, helper>>

EndOfOptions ==
    /\ pc = "parse"
    /\ pc' = "check"
    /\ UNCHANGED <<args, runner, argv, optind, helper>>

Given(opts, o) == opts[o] # unset

\* --network cannot be used with any of these.
NetworkConflicts(opts) ==
    \E o \in Addresses \cup {"--operation-mode", "--shared-interface"} :
        Given(opts, o)

BadBridge(opts) ==
    ~Given(opts, "--shared-interface") \/ Given(opts, "--enable-isolation")

RunnerAccepts(opts) ==
    IF Given(opts, "--network")
    THEN ~NetworkConflicts(opts)
    ELSE opts["--operation-mode"] = "bridged" => ~BadBridge(opts)

\* Whether there is a command after the options: the script always gives one.
HasCommand == IF args.connection = "none" THEN BOOLEAN ELSE {TRUE}

RunnerCheck ==
    /\ pc = "check"
    /\ \E command \in HasCommand :
        pc' = IF RunnerAccepts(runner) /\ command THEN "build" ELSE "runner_exit"
    /\ UNCHANGED <<args, runner, argv, optind, helper>>

------------------------------------------------------------------------------
\* vmnet-run: build_helper_argv.

\* Mutant: an option is forgotten.
MutantOrder == <<"--interface-id", "--operation-mode", "--start-address",
                 "--end-address", "--subnet-mask", "--shared-interface",
                 "--enable-tso", "--enable-checksum-offload",
                 "--network", "--stats-interval", "--verbose">>

\* The options in the order in which they are appended.
Order == <<"--interface-id", "--operation-mode", "--start-address",
           "--end-address", "--subnet-mask", "--shared-interface",
           "--enable-tso", "--enable-checksum-offload", "--enable-isolation",
           "--network", "--stats-interval", "--verbose">>

\* sudo is put first on macOS 15 and older, and runs the rest.
Build ==
    /\ pc = "build"
    /\ Starts("--fd", runner, Order)
    /\ pc' = "helper_parse"
    /\ UNCHANGED <<args, runner, helper>>

\* The version of macOS cannot be read.
VersionFails ==
    /\ pc = "build"
    /\ pc' = "failed"
    /\ UNCHANGED <<args, runner, argv, optind, helper>>

------------------------------------------------------------------------------
\* vmnet-helper: parse_options.

LongPath == args.connection = "--socket" /\ args.vm_name = "long"

\* --fd and a number, which is right in the vectors of both programs, or --socket and
\* a path, which may be too long for an address.
HelperConnection ==
    /\ pc = "helper_parse" /\ optind <= Len(argv)
    /\ argv[optind] \in {"--fd", "--socket"}
    /\ \/ /\ ~LongPath
          /\ helper' = [helper EXCEPT ![argv[optind]] = "good"]
          /\ UNCHANGED pc
       \/ /\ LongPath
          /\ pc' = "helper_exit"
          /\ UNCHANGED helper
    /\ optind' = optind + 1
    /\ UNCHANGED <<args, runner, argv>>

\* Mutant: a flag is declared with an argument.
MutantHelperFlag ==
    /\ pc = "helper_parse" /\ optind <= Len(argv)
    /\ argv[optind] \in Flags
    /\ helper' = [helper EXCEPT ![argv[optind]] = "set"]
    /\ optind' = optind + 2
    /\ UNCHANGED <<pc, args, runner, argv>>

HelperFlag ==
    /\ pc = "helper_parse" /\ optind <= Len(argv)
    /\ argv[optind] \in Flags
    /\ helper' = [helper EXCEPT ![argv[optind]] = "set"]
    /\ optind' = optind + 1
    /\ UNCHANGED <<pc, args, runner, argv>>

\* An option with an argument, which its parser accepts or rejects.
HelperOption ==
    /\ pc = "helper_parse" /\ optind <= Len(argv)
    /\ argv[optind] \in Options \ Flags
    /\ LET value == argv[optind + 1]
       IN  \/ /\ value # "bad"
              /\ helper' = [helper EXCEPT ![argv[optind]] = value]
              /\ UNCHANGED pc
           \/ /\ value = "bad"
              /\ pc' = "helper_exit"
              /\ UNCHANGED helper
    /\ optind' = optind + 2
    /\ UNCHANGED <<args, runner, argv>>

HelperEndOfOptions ==
    /\ pc = "helper_parse" /\ optind > Len(argv)
    /\ pc' = "helper_check"
    /\ UNCHANGED <<args, runner, argv, optind, helper>>

\* validate_network_options: all three addresses or none.
AddressesFit(opts) ==
    \/ \A o \in Addresses : Given(opts, o)
    \/ \A o \in Addresses : ~Given(opts, o)

\* Mutant: the addresses are checked only in the default mode.
MutantHelperAccepts(opts) ==
    IF Given(opts, "--network")
    THEN ~NetworkConflicts(opts)
    ELSE /\ ~Given(opts, "--operation-mode") => AddressesFit(opts)
         /\ opts["--operation-mode"] = "bridged" => ~BadBridge(opts)

HelperAccepts(opts) ==
    IF Given(opts, "--network")
    THEN ~NetworkConflicts(opts)
    ELSE IF opts["--operation-mode"] = "bridged"
         THEN ~BadBridge(opts)
         ELSE AddressesFit(opts)

\* shared is the default mode, without --network.
WithDefaults(opts) ==
    IF Given(opts, "--network") \/ Given(opts, "--operation-mode")
    THEN opts
    ELSE [opts EXCEPT !["--operation-mode"] = "shared"]

HelperCheck ==
    /\ pc = "helper_check"
    /\ helper' = WithDefaults(helper)
    /\ pc' = IF /\ HelperAccepts(helper)
                /\ Given(helper, "--fd") # Given(helper, "--socket")
             THEN "ready" ELSE "helper_exit"
    /\ UNCHANGED <<args, runner, argv, optind>>

Next ==
    \/ ScriptRejects \/ ScriptStartsRunner \/ ScriptStartsHelper
    \/ RunnerOption \/ EndOfOptions \/ RunnerCheck \/ Build \/ VersionFails
    \/ HelperConnection \/ HelperFlag \/ HelperOption \/ HelperEndOfOptions \/ HelperCheck

Spec == Init /\ [][Next]_vars
------------------------------------------------------------------------------
Values == {unset, "set", "good", "bad"} \cup Modes

\* helper_argv has 32 elements and execvp() needs a NULL after the last.
TypeOK ==
    /\ pc \in {"script", "parse", "check", "build", "helper_parse", "helper_check",
               "ready", "failed", "script_exit", "runner_exit", "helper_exit"}
    /\ runner \in [Options -> Values]
    /\ helper \in [Options \cup {"--fd", "--socket"} -> Values]
    /\ Len(argv) <= 31
    /\ optind \in 1..(Len(argv) + 1)

\* The helper runs with what vmnet-run or `run` was asked for: no option is lost,
\* mixed up with another or read from the wrong place of a vector, by either way
\* from the script to the helper.
Faithful ==
    pc = "ready" =>
        \A o \in Options :
            helper[o] = WithDefaults(
                IF args.connection = "none" THEN runner
                ELSE [n \in Options |-> ScriptGives(n)])[o]

\* The three validators agree: what testing/validate.py lets through neither
\* vmnet-run nor the helper rejects, but for --network (see ScriptNetworkJoins), an
\* interval that argparse takes for good because it is an integer, and a VM name with
\* which the path of the socket is too long.
ScriptSuffices ==
    (pc \in {"runner_exit", "helper_exit"} /\ args.connection # "none") =>
        args.network_name # unset \/ args.stats_interval = "bad" \/ LongPath

\* "Join a network managed by vmnet-broker" (run:91): a --network that `run` accepts
\* is one the helper is started with.
ScriptNetworkJoins ==
    (args.network_name # unset /\ args.stats_interval # "bad" /\ ~LongPath) =>
        pc \notin {"runner_exit", "helper_exit"}

\* What start_interface_with_options reads is there: it takes the end address and
\* the mask for granted when it finds a start address, and the name of an
\* interface in bridged mode (helper.c:359-376).
DescriptorDefined ==
    (pc = "ready" /\ ~Given(helper, "--network")) =>
        CASE helper["--operation-mode"] \in {"shared", "host"} ->
                Given(helper, "--start-address") =>
                    Given(helper, "--end-address") /\ Given(helper, "--subnet-mask")
          [] helper["--operation-mode"] = "bridged" ->
                Given(helper, "--shared-interface")
          [] OTHER -> FALSE
==============================================================================
