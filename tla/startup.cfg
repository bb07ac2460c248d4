SPECIFICATION Spec
CONSTANTS
  Args <- MCArgs
  MaxArgs = 3
  Secrets <- MCSecrets
  Faults = {"oom"}
INVARIANTS TypeOK PasswordMasked CredentialsChosen SchemeChosen CrashCauses UseLockKept
