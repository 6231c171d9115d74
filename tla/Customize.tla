------------------------------ MODULE Customize ------------------------------
(***************************************************************************)
(* The installer's edits of the extracted root (customize.rs) as operators *)
(* on its account files.  /etc/passwd and /etc/shadow are sequences of     *)
(* user names, /etc/group a sequence of records with the set of members;   *)
(* the other fields of a line are constants of the chosen user.            *)
(***************************************************************************)
EXTENDS Naturals, Sequences, FiniteSets

\* The placeholder account of the skeleton.
Skeleton == "writeonce"

Has(seq, e) == \E i \in 1..Len(seq) : seq[i] = e

Count(seq, e) == Cardinality({i \in 1..Len(seq) : seq[i] = e})

\* rewrite_passwd and rewrite_shadow: the placeholder's line becomes the
\* user's; without one the user's is added at the end.
RewriteLines(file, user) ==
  IF Has(file, Skeleton)
    THEN [i \in 1..Len(file) |-> IF file[i] = Skeleton THEN user ELSE file[i]]
    ELSE Append(file, user)

\* Mutant: the user joins the groups beside the placeholder.
RewriteGroupLineAdds(line, user, groups) ==
  IF line.name = Skeleton
    THEN [name |-> user, members |-> {}]
    ELSE [line EXCEPT !.members = @ \cup (IF line.name \in groups THEN {user} ELSE {})]

\* rewrite_group, line by line: the placeholder's group becomes the user's,
\* and the user replaces the placeholder in the groups asked for.
RewriteGroupLine(line, user, groups) ==
  IF line.name = Skeleton
    THEN [name |-> user, members |-> {}]
    ELSE [line EXCEPT !.members =
            (@ \ {Skeleton}) \cup (IF line.name \in groups THEN {user} ELSE {})]

RewriteGroup(file, user, groups) ==
  LET lines == [i \in 1..Len(file) |-> RewriteGroupLine(file[i], user, groups)]
  IN  IF \E i \in 1..Len(file) : file[i].name = Skeleton
        THEN lines
        ELSE Append(lines, [name |-> user, members |-> {}])

\* rename_home: the placeholder's home is renamed; onto a home that is there
\* and not empty the rename fails.
CanRenameHome(homes, user) == Skeleton \notin homes \/ user \notin homes \ {Skeleton}

RenameHome(homes, user) == (homes \ {Skeleton}) \cup {user}

\* apply_network: stubs in enabled.d and another default.target.
EnabledUnits == {"iwd.service", "dhcpcd.service", "writeonce-modules-load.service"}

ApplyNetwork(root, atBoot) ==
  IF atBoot THEN [root EXCEPT !.enabled = @ \cup EnabledUnits, !.target = "multi-user"] ELSE root

\* apply, in its order.
Apply(root, user, groups, atBoot) ==
  ApplyNetwork([root EXCEPT !.passwd = RewriteLines(@, user),
                            !.shadow = RewriteLines(@, user),
                            !.group  = RewriteGroup(@, user, groups),
                            !.homes  = RenameHome(@, user)], atBoot)

==============================================================================
