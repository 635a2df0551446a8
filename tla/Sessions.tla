------------------------------ MODULE Sessions ------------------------------
(***************************************************************************)
(* AuthService: login, refresh and logout.  A refresh token is a row that  *)
(* is never deleted, only revoked; refresh reads it, revokes it and issues *)
(* its successor in three statements.                                      *)
(***************************************************************************)
EXTENDS Tenancy

LoginDto   == [kind : {"Login"}, tenant : Tenant, user : KeyOf("User"), device : Code]
RefreshDto == [kind : {"Refresh"}, tenant : Tenant, token : KeyOf("RefreshToken")]
LogoutDto  == [kind : {"Logout"}, tenant : Tenant, token : KeyOf("RefreshToken")]

\* issueTokens: a random token that nobody has had before, with its user and device.
IssueToken(r, tenant, holders) == <<Insert(Key("RefreshToken", tenant, r), holders)>>

\* What a row refers to in another table.
Referred(key, table) == {link[2] : link \in {l \in links : l[1] = key /\ l[2].table = table}}

\* A login with the right password.  The device gets the user and the user's branch;
\* one that is there already gets the user.  `lastLoginAt` is read by nobody.
Login(r, d) ==
  LET device == Key("Device", d.tenant, d.device)
  IN  <<Present({d.user}),
        Find(device),
        Insert(device, {Company(d.tenant), d.user} \cup Referred(d.user, "Branch")),
        Update(device, {d.user})>>
        \o IssueToken(r, d.tenant, {d.user, device})

\* The user and the device of a token.
HoldersOf(token) == Referred(token, "User") \cup Referred(token, "Device")

\* A token without a device: one of its user's is looked for, after the token has
\* been revoked.
DeviceOf(d) ==
  IF Referred(d.token, "Device") # {} THEN <<>>
  ELSE <<Pick("Device", d.tenant, Referred(d.token, "User"))>>

\* Mutant: `revokedAt` is not looked at.
RefreshRevoked(r, d) ==
  <<Present({d.token}), Revoke(d.token)>>
    \o DeviceOf(d) \o IssueToken(r, d.tenant, HoldersOf(d.token))

Refresh(r, d) ==
  <<Valid(d.token), Revoke(d.token)>>
    \o DeviceOf(d) \o IssueToken(r, d.tenant, HoldersOf(d.token))

\* A token that does not serve any more is passed over without an error.
Logout(d) == <<Live(d.token), Revoke(d.token)>>
=============================================================================
