CONSTANTS
 ana = ana
 root = root
 desk = desk
 office = office
 Action = {a1, a2}
 Target = {ana, desk, protected}
 Permitted = {ana, desk}
 NoTarget = NoTarget
 Thread = {t1, t2}
 MaxRestarts = 1
 Account = {ana, root}
 Admin = {ana, root}
 Founder = {root}
 Forgetful = {ana}
 AddressOf <- Seats
 MaxAttempts = 2
SPECIFICATION AppSpec
INVARIANTS AppTypeOK EventsMatchControls AnswerNamesTheControl LockoutComes
PROPERTIES ImplementsStore LockoutStands AdministratorsCross
SYMMETRY Symmetry
