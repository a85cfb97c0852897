CONSTANTS
    Handlers = {w1, w2, w3}
    Usernames = {"ann", "old"}
    Emails = {x, y}
    Passwords = {p, q}
    Legacy = {"old"}
SPECIFICATION AccountsSpec
INVARIANTS
    WinnerOwnsAccount
    PromiseLostOnlyToRehash
SYMMETRY Symmetry
