--------------------------- MODULE AgentContract ---------------------------
(***************************************************************************)
(* The contract of an agent's class: what `canyonos validate` finds in its *)
(* source (validate.py), and what happens when the replica loads it and    *)
(* calls the method a `functions` entry declares.                          *)
(*                                                                         *)
(* The validator only reads; the replica runs.  A name is found by reading *)
(* (_resolve_class, _methods), is known not to be there, or is bound in a  *)
(* way that only running the module would show, and then the validator     *)
(* stays silent.  A signature is a set of parameters of each kind without  *)
(* the first, self; an entry's arguments are a set of names.  Both sides   *)
(* use those sets: the reports of the validator are set against the rules  *)
(* by which Python binds the arguments of a call that names them all.      *)
(***************************************************************************)
CONSTANT Names   \* of parameters and arguments

VARIABLES
    class,        \* what the agent's name is in the entrypoint
    constructor,  \* what __init__ is, and the parameters it requires
    method,       \* what the declared function is in the class and its bases
    complete,     \* could every base be read, and is there no __getattr__?
    declared,     \* the arguments of the `functions` entry
    checking,     \* the validator's next check
    findings,     \* what it has reported
    instance,     \* the agent of the replica
    sent,         \* the arguments of the last call
    answer        \* what came of it

projectVars == <<class, constructor, method, complete, declared>>
contractVars == <<class, constructor, method, complete, declared, checking, findings, instance,
                  sent, answer>>

\* `before` are the parameters before the slash.
Parameters(m) == m.before \cup m.plain \cup m.keyword
Signatures ==
    {m \in [how : {"def", "async def"}, before : SUBSET Names, plain : SUBSET Names,
            keyword : SUBSET Names, optional : SUBSET Names, extra : BOOLEAN] :
        /\ m.before \cap m.plain = {} /\ (m.before \cup m.plain) \cap m.keyword = {}
        /\ m.optional \subseteq Parameters(m)
        /\ m.optional \cap m.before # {} => m.plain \subseteq m.optional}

\* What is not a `def` in the class body itself has no signature to read: a name that is assigned
\* there ("bound"), and a `def` in an `if` or a `try` of the body ("nested"), which _methods passes over.
Bare(how) == [how |-> how, before |-> {}, plain |-> {}, keyword |-> {}, optional |-> {},
              extra |-> FALSE]
Methods == Signatures \cup {Bare("absent"), Bare("bound"), Bare("nested")}
Classes == {"found", "absent", "unreadable", "unparsable"}
\* A nested __init__ is bound too: nothing is reported of what it requires.
Constructors == [how : {"absent", "bound", "def"}, required : SUBSET Names]

\* Nothing is read of what a class holds that is not found.
ContractInit ==
    /\ class \in Classes
    /\ constructor \in {c \in Constructors : c.how # "def" => c.required = {}}
    /\ method \in Methods
    /\ complete \in BOOLEAN
    /\ class # "found" => constructor.how = "absent" /\ method = Bare("absent") /\ ~complete
    /\ declared \in SUBSET Names
    /\ checking = "class" /\ findings = {}
    /\ instance = "none" /\ sent = {} /\ answer = "none"

-----------------------------------------------------------------------------
\* _required_parameters, _parameter_names and _positional_only.
Required(m) == Parameters(m) \ m.optional
Keywords(m) == m.plain \cup m.keyword

\* Mutant of PositionalOnly: what is sent to a parameter with a default is not looked at.
PositionalRequired(m, args) == m.before \cap Required(m)

PositionalOnly(m, args) == m.before \cap (Required(m) \cup args)

\* _check_method's reports on a signature.
Missing(m, args) == IF m.extra THEN {} ELSE args \ (Keywords(m) \cup PositionalOnly(m, args))
Unfilled(m, args) == Required(m) \ (args \cup PositionalOnly(m, args))
SignatureReports(m, args) ==
    {"positional" : x \in PositionalOnly(m, args)}
        \cup {"missing" : x \in Missing(m, args)} \cup {"unfilled" : x \in Unfilled(m, args)}
MethodReports(m, args) ==
    SignatureReports(m, args) \cup (IF m.how = "async def" THEN {"async"} ELSE {})

\* _check_adapter: without a class there is nothing more to check.
CheckClass ==
    /\ checking = "class"
    /\ checking' = IF class = "found" THEN "constructor" ELSE "done"
    /\ findings' = IF class \in {"absent", "unparsable"} THEN {"class"} ELSE {}
    /\ UNCHANGED <<projectVars, instance, sent, answer>>

CheckConstructor ==
    /\ checking = "constructor"
    /\ checking' = "method"
    /\ findings' = findings \cup (IF constructor.required # {} THEN {"init"} ELSE {})
    /\ UNCHANGED <<projectVars, instance, sent, answer>>

CheckMethod ==
    /\ checking = "method"
    /\ checking' = "done"
    /\ findings' = findings \cup
          CASE method.how \in {"absent", "nested"} -> (IF complete THEN {"absent"} ELSE {})
            [] method.how = "bound"              -> {}
            [] OTHER                             -> MethodReports(method, declared)
    /\ UNCHANGED <<projectVars, instance, sent, answer>>

-----------------------------------------------------------------------------
\* _load_agent.  The module's body or the constructor may raise whatever it is; a class that could
\* not be read, and a constructor that a base may have, are as they turn out to be.
Load ==
    /\ instance = "none"
    /\ instance' \in {"raised"} \cup
          CASE class = "unparsable" -> {}
            [] class = "absent"     -> {"no class"}
            [] class = "unreadable" -> {"no class", "refused", "loaded"}
            [] class = "found"      ->
                 IF constructor.required # {} THEN {"refused"}
                 ELSE IF constructor.how = "bound" \/ (constructor.how = "absent" /\ ~complete)
                      THEN {"refused", "loaded"} ELSE {"loaded"}
    /\ UNCHANGED <<projectVars, checking, findings, sent, answer>>

\* How Python binds a call that names all its arguments: each is a parameter after the slash or
\* one of **kwargs, and each parameter has an argument or a default.
Binds(m, args) ==
    /\ args \subseteq Keywords(m) \/ m.extra
    /\ Required(m) \subseteq args \cap Keywords(m)

\* An argument that names a parameter before the slash and is taken by **kwargs never reaches it.
Outcome(m, args) ==
    IF ~Binds(m, args) THEN "refused"
    ELSE IF m.how = "async def" THEN "coroutine"
    ELSE IF args \cap m.before # {} THEN "misplaced" ELSE "returned"

\* method(**args): the names of the arguments are those the caller has sent.
Call(args) ==
    /\ instance = "loaded"
    /\ sent' = args
    /\ answer' \in
          IF method.how \in {"def", "async def"} /\ class = "found" THEN {Outcome(method, args)}
          ELSE IF method.how = "absent" /\ complete /\ class = "found" THEN {"no method"}
          ELSE {"no method", "refused", "coroutine", "misplaced", "returned"}
    /\ UNCHANGED <<projectVars, checking, findings, instance>>

\* A generated stub has the entry's arguments as its parameters, none with a default.
CallByStub == Call(declared)

\* The endpoint asks for the entry's arguments and passes on every member of the body.
CallByEndpoint == \E args \in SUBSET Names : declared \subseteq args /\ Call(args)

ContractNext ==
    \/ CheckClass \/ CheckConstructor \/ CheckMethod
    \/ Load \/ CallByStub \/ CallByEndpoint

ContractSpec == ContractInit /\ [][ContractNext]_contractVars

-----------------------------------------------------------------------------
Answers == {"none", "no method", "refused", "coroutine", "misplaced", "returned"}

ContractTypeOK ==
    /\ class \in Classes /\ constructor \in Constructors /\ method \in Methods
    /\ complete \in BOOLEAN /\ declared \in SUBSET Names
    /\ (constructor.how # "def" => constructor.required = {})
    /\ checking \in {"class", "constructor", "method", "done"}
    /\ findings \subseteq {"class", "init", "absent", "async", "positional", "missing", "unfilled"}
    /\ instance \in {"none", "raised", "no class", "refused", "loaded"}
    /\ sent \in SUBSET Names /\ answer \in Answers

Clean == checking = "done" /\ findings = {} /\ class = "found"
Defined == method.how \in {"def", "async def"}

\* Could the validator read what __init__ is, and what the declared function is?
ConstructorRead == constructor.how = "def" \/ (constructor.how = "absent" /\ complete)
MethodRead == Defined \/ (method.how = "absent" /\ complete)

\* A class the validator could read and has nothing against is found and constructed: if the
\* replica has no agent, the agent's own code raised.
CleanLoads == Clean /\ ConstructorRead => instance \notin {"no class", "refused"}

\* A method it could read and has nothing against returns when a stub calls it: no argument is
\* refused or misplaced, none is missing, and what comes back is no coroutine.
CleanReturns == Clean /\ MethodRead /\ sent = declared => answer \in {"none", "returned"}

\* Nothing is reported of a method that returns when a stub calls it: whatever is reported of an
\* agent would have gone wrong.  A nested `def` is excepted: it is reported as absent although the
\* class has it.
NoFalseAlarm ==
    class = "found" /\ MethodRead /\ sent = declared /\ answer = "returned" => findings = {}
=============================================================================
