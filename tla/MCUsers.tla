------------------------------- MODULE MCUsers -------------------------------
(* Small instances of UsersAtWork. *)
EXTENDS UsersAtWork

CONSTANTS k1, a1, s1, s2, p1, f1, f2, f3

Spec1(secret, policies) ==
    [access |-> a1, secret |-> secret, policies |-> policies,
     accessField |-> f1, keyField |-> f2]

Plain == Spec1(None, {p1})

OtherField == [Plain EXCEPT !.keyField = f3]

\* The secret or the field for its key is renamed, or the policy added or removed.
RenamedSpecs == [k \in Keys |-> {Plain, Spec1(s2, {p1}), Spec1(None, {}), OtherField}]

PlainSpecs == [k \in Keys |-> {Plain}]

NamedAsTheCR == [k \in Keys |-> s1]

\* Others may have made a secret with the default name, with or without a key.
SecretWith(key) ==
    [owner |-> None,
     data  |-> [f \in FieldNames |-> CASE f = f1 -> a1 [] f = f2 -> key [] OTHER -> None]]

ByOthers == [n \in SecretNames |-> IF n = s1 THEN {SecretWith(1), SecretWith(None)} ELSE {}]

Keyless == [n \in SecretNames |-> IF n = s1 THEN {SecretWith(None)} ELSE {}]

Flag(override, read) == [override |-> override, read |-> read]

AllFlags == {Flag(override, read) : override, read \in BOOLEAN}

DefaultFlags == {Flag(FALSE, FALSE)}

ReadFlag == {Flag(FALSE, TRUE)}

EightPasswords == 1..8

NoSecrets == [n \in SecretNames |-> {}]

\* To keep the instance small, not every choice of flags meets everything: which of
\* them meet a policy that is made after the S3User, a keyless secret, each change of
\* the CR, and a change of a secret by others that is not its deletion.
Init ==
    /\ UserInit
    /\ canned = {} => flags = Flag(FALSE, TRUE)
    /\ \A n \in SecretNames : StoredSecret(n) \in Keyless[n] => flags.read

Meets(spec) ==
    /\ spec.secret = s2 => flags = Flag(TRUE, TRUE)
    /\ spec.policies = {} => flags = Flag(TRUE, FALSE)
    /\ spec.keyField = f3 => flags = Flag(FALSE, TRUE)

SmallNext ==
    /\ Next
    /\ \A k \in Keys : Stored(k)' # None => Meets(Stored(k)'.spec)
    /\ \A n \in SecretNames :
         Tamper(n) /\ StoredSecret(n)' # None =>
           flags = Flag(TRUE, FALSE) /\ StoredSecret(n)'.data[f3] = None

SmallSpec == Init /\ [][SmallNext]_vars /\ Fairness

=============================================================================
