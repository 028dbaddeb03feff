------------------------------ MODULE SecAudit ------------------------------
(***************************************************************************)
(* SecAuditModule (xping/modules/secaudit.py): set-id binaries and others  *)
(* with capabilities, files anyone may write or nobody owns, the           *)
(* configuration of sshd, sudo, PAM and passwords, and the permissions of  *)
(* sensitive files.                                                        *)
(***************************************************************************)
EXTENDS CheckRun

CONSTANTS
    Binaries,       \* what find and getcap may list: name -> [setuid, gtfobin, cap]
    SensitiveOrder  \* SENSITIVE_FILES, those of them considered, in order

(***************************************************************************)
(* A file's mode is the set of its permission bits: 8, 7, 6 are the        *)
(* owner's r, w, x, 5 to 3 the group's, 2 to 0 everybody's, 11 to 9 set    *)
(* the user id, the group id and the sticky bit.  Octal is the number      *)
(* int(perms, 8) makes of what file_permissions_octal prints of them.      *)
(***************************************************************************)
Bits == 0 .. 11
Bit(m, b, weight) == IF b \in m THEN weight ELSE 0
Octal(m) ==
    Bit(m, 0, 1) + Bit(m, 1, 2) + Bit(m, 2, 4) + Bit(m, 3, 8) + Bit(m, 4, 16) +
    Bit(m, 5, 32) + Bit(m, 6, 64) + Bit(m, 7, 128) + Bit(m, 8, 256) +
    Bit(m, 9, 512) + Bit(m, 10, 1024) + Bit(m, 11, 2048)

SENSITIVE_FILES ==
    [shadow |-> {8, 7, 5}, gshadow |-> {8, 7, 5}, passwd |-> {8, 7, 5, 2},
     group |-> {8, 7, 5, 2}, sshd_config |-> {8, 7}, sudoers |-> {8, 5},
     crontab |-> {8, 7, 5, 2}, rootssh |-> {8, 7, 6}]

ASSUME SensitiveAssumption ==
    SensitiveOrder \in Seq(DOMAIN SENSITIVE_FILES) /\ SensitiveOrder # <<>>

SecQuestions == {"suid", "worldFiles", "worldDirs", "getcap", "unowned"}
SecReplies(h, q) ==
    CASE q = "suid"   -> {<<h.setid, 0>>, <<h.setid, 1>>}
      [] q = "getcap" -> {<<{b \in DOMAIN Binaries : Binaries[b].cap}, 0>>}
      [] OTHER        -> {<<{q} \cap h.dangers, 0>>, <<{q} \cap h.dangers, 1>>}

-----------------------------------------------------------------------------
\* Set-id binaries.  Only an exception of run_cmd leaves a text in err: what
\* find complains of is thrown away.
Gtfobins(lines) == {b \in lines : Binaries[b].gtfobin}
CheckSuidSgid ==
    /\ Decide("suid") /\ Goto("worldFiles", 1)
    /\ IF call.out = {} THEN Report({}, IF call.rc = -1 THEN {"suid"} ELSE {})
       ELSE Report({Finding("gtfobin", b, "HIGH") : b \in Gtfobins(call.out)} \cup
                   {Finding("setidSummary", "suid",
                            IF Gtfobins(call.out) = {} THEN "INFO" ELSE "MEDIUM")}, {})

SecDangers == {"worldFiles", "worldDirs", "unowned"}
CheckWorldWritable ==
    \/ Presence("worldFiles", Finding("danger", "worldFiles", "MEDIUM"), "worldDirs")
    \/ Presence("worldDirs", Finding("danger", "worldDirs", "MEDIUM"), "sshd")

(***************************************************************************)
(* sshd_config as a sequence of lines, commented ones included.  Of a      *)
(* directive given more than once the last line counts here; sshd takes    *)
(* the first.                                                              *)
(***************************************************************************)
Bad(directive, value, sev) == [directive |-> directive, value |-> value, sev |-> sev]
SshChecks ==
    {Bad("permitrootlogin", "yes", "CRITICAL"), Bad("passwordauthentication", "yes", "MEDIUM"),
     Bad("permitemptypasswords", "yes", "CRITICAL"), Bad("x11forwarding", "yes", "LOW"),
     Bad("protocol", "1", "CRITICAL"), Bad("usepam", "no", "MEDIUM"),
     Bad("maxauthtries", "above5", "MEDIUM")}
\* Faulty variant: comments count.
Given_Commented(lines, d) == {k \in 1 .. Len(lines) : lines[k].directive = d}
Given(lines, d) == {k \in 1 .. Len(lines) : lines[k].directive = d /\ ~lines[k].commented}
Actual(lines, d) ==
    lines[CHOOSE k \in Given(lines, d) : \A m \in Given(lines, d) : m <= k].value
SshFindings(lines) ==
    {Finding("ssh", b.directive, b.sev) : b \in
        {b \in SshChecks :
            IF Given(lines, b.directive) = {} THEN b.directive = "maxauthtries"
            ELSE Actual(lines, b.directive) = b.value}}
CheckSshConfig ==
    /\ Look("sshd") /\ Goto("sudo", 1)
    /\ IF host.sshd = <<>> THEN Nothing ELSE Report(SshFindings(host.sshd), {})

(***************************************************************************)
(* sudoers, PAM and login.defs.  A rule of sudoers is a fact by its kind;  *)
(* a shell behind a negation is none.                                      *)
(***************************************************************************)
SudoRules ==
    {Rule("nopasswdAll", TRUE, "sudoNopasswdAll", "CRITICAL"),
     Rule("nopasswd", TRUE, "sudoNopasswd", "MEDIUM"), Rule("shell", TRUE, "sudoShell", "HIGH")}
CheckSudo ==
    /\ Look("sudo") /\ Goto("pam", 1)
    /\ Report(Judged("sudo", SudoRules, host.files["sudoers"]),
              IF host.files["sudoers"] = {} THEN {"sudo"} ELSE {})
CheckPam ==
    ReadFor("pam", <<"common-auth", "system-auth", "password-auth">>,
            {Rule("faillock", FALSE, "noLockout", "MEDIUM")}, "login")
CheckPasswordPolicy ==
    ReadFor("login", <<"login.defs">>,
            {Rule("maxDaysAbove90", TRUE, "passwordExpiry", "MEDIUM"),
             Rule("minLenBelow8", TRUE, "passwordLength", "MEDIUM")}, "getcap")

CheckCapabilities ==
    /\ Decide("getcap") /\ Goto("sensitive", 1)
    /\ Report({Finding("capability", b, "HIGH") : b \in call.out}, {})

(***************************************************************************)
(* Each sensitive file is looked at three times: does it exist, what are   *)
(* its permissions, who owns it.                                           *)
(***************************************************************************)
\* Faulty variant: the last file is left out.
NextFile_Short == IF i + 1 < Len(SensitiveOrder) THEN Goto("sensitive", i + 1) ELSE Goto("unowned", 1)
NextFile == IF i < Len(SensitiveOrder) THEN Goto("sensitive", i + 1) ELSE Goto("unowned", 1)
File(k)  == SensitiveOrder[k]
SensitiveExists ==
    /\ Look("sensitive") /\ Nothing
    /\ IF host.owner[File(i)] = "absent" THEN NextFile ELSE Goto("permissions", i)

\* Faulty variant: any other mode is called more permissive.
TooPermissive_Differs(mode, expected) == mode # expected
TooPermissive(mode, expected) == mode # expected /\ Octal(mode) > Octal(expected)
CheckPermissions ==
    /\ Look("permissions") /\ Goto("owner", i)
    /\ IF host.owner[File(i)] # "absent" /\
          TooPermissive(host.mode[File(i)], SENSITIVE_FILES[File(i)])
       THEN Report({Finding("permissive", File(i), "HIGH")}, {}) ELSE Nothing
CheckOwner ==
    /\ Look("owner") /\ NextFile
    /\ IF host.owner[File(i)] \notin {"absent", "root"}
       THEN Report({Finding("wrongOwner", File(i), "HIGH")}, {}) ELSE Nothing

CheckUnownedFiles == Presence("unowned", Finding("danger", "unowned", "MEDIUM"), "done")

\* What the remediation of a finding f makes of the machine.  chmod u-s
\* leaves a binary that sets the group id as it is.
SecFixed(f, h) ==
    CASE f.title = "gtfobin"    -> [h EXCEPT !.setid = @ \ {b \in {f.of} : Binaries[b].setuid}]
      [] f.title = "danger"     -> [h EXCEPT !.dangers = @ \ {f.of}]
      [] f.title = "permissive" -> [h EXCEPT !.mode[f.of] = SENSITIVE_FILES[f.of]]
      [] f.title = "wrongOwner" -> [h EXCEPT !.owner[f.of] = "root"]

SecAuditRun ==
    \/ CheckSuidSgid \/ CheckWorldWritable \/ CheckSshConfig \/ CheckSudo \/ CheckPam
    \/ CheckPasswordPolicy \/ CheckCapabilities \/ SensitiveExists \/ CheckPermissions
    \/ CheckOwner \/ CheckUnownedFiles
=============================================================================
