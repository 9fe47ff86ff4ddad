----------------------------- MODULE MCAccounts -----------------------------
(* Small instances of Accounts for TLC.                                      *)
EXTENDS Accounts, TLC

CONSTANTS r1, r2, t1, t2, t3, s1, s2, u1, c1

SignIn == {"login", "refreshToken", "tokenExpires", "accessExpires"}
SigningOut == {"login", "refreshToken", "logout", "blacklistLapses"}
Leaving == {"login", "refreshToken", "changePassword", "deleteUser", "restoreUser"}
Locking == {"login", "wrongPassword", "lockUser", "unlockAccount", "updateUser",
            "lockAges", "failureAges", "sessions"}
Codes == {"generateOtp", "register", "resetPassword", "verifyOtpCode", "otpExpires"}
AllScenes == {SignIn, SigningOut, Leaving, Locking, Codes}

\* The scenes of the refuted claims.
LockScene == {Locking}
PasswordScene == {{"login", "generateOtp", "resetPassword"}}

Symmetry == Permutations(Calls) \cup Permutations(Tokens) \cup Permutations(Sessions)
=============================================================================
